---- MODULE Spec2Model ----
(***************************************************************************)
(* SitLess background service: reminder scheduling (syncAlarm), the        *)
(* notification issuer (showNotification), the permission gate and the     *)
(* settings normalizer, modelled from src/unnamed/part_004, lines 1-225.   *)
(*                                                                         *)
(* Every async function is cut at its awaits: one action completes the     *)
(* awaited platform call (its effect takes place in that step) and runs    *)
(* the synchronous code that follows, up to the next await or the return.  *)
(* Listeners start their async function with `void f()` and return, so the *)
(* host dispatches the next event while earlier invocations are suspended. *)
(*                                                                         *)
(* JavaScript numbers are fixed-point integers with two decimals (FP):     *)
(* 45 minutes is 4500, 0.1 minute is 10, 0.05 minute is 5.  Clock values   *)
(* and setTimeout delays are in milliseconds.                              *)
(***************************************************************************)
EXTENDS Integers, Sequences, FiniteSets, TLC

\* ------------------------------------------------------------------ bounds
MaxSyncs == 2        \* syncAlarm invocations in flight at once
MaxShows == 2        \* showNotification invocations in flight at once
MaxInFlight == 2     \* invocations of either kind in flight at once
MaxPending == 1      \* storage-change events waiting for dispatch
MaxTime == 60000     \* the clock stops here (ms)
Quantum == 30000     \* the clock's finest step (ms)
Spread == 6          \* numeric inputs this many steps around each boundary
MaxUses == 1         \* handlers the icon page runs while it is open
MaxPad == 2          \* characters short of, and beyond, a length cap

\* --------------------------------------------------------------- constants
FP == 100
MIN_INTERVAL_MINUTES == 10
MAX_INTERVAL_MINUTES == 18000
MAX_ICON_DATA_URL_LENGTH == 2000000
MaxTitleLength == 80
MaxMessageLength == 200
MinDisplaySeconds == 100
MaxDisplaySeconds == 30000
MsPerMinute == 60000
MsPerSecond == 1000
OneMinute == 100

Min(a, b) == IF a <= b THEN a ELSE b
\* Max that lets its second argument through
MaxUnclamped(a, b) == b

Max(a, b) == IF a >= b THEN a ELSE b

\* ------------------------------------------------------- JavaScript values
\* A value carries its type tag; each type keeps its payload in a field of
\* its own, so values of different types compare unequal.
Undefined == [t |-> "undefined"]
Null == [t |-> "null"]
NaN == [t |-> "nan"]
Num(n) == [t |-> "number", n |-> n]
Bool(b) == [t |-> "boolean", b |-> b]
Str(s) == [t |-> "string", s |-> s]
Arr(a) == [t |-> "array", a |-> a]

\* Characters of a string.  A string is a sequence of characters; the long
\* runs that only matter by their length are single tokens.
ImagePrefix == "data:image/"
TextPrefix == "data:text/"
Blob == "BLOB"
BlobLength == MAX_ICON_DATA_URL_LENGTH - 11
PngHead == "png;base64,"
JpegHead == "jpeg;base64,"
Pixels == "PIXELS"
PixelsLength == MAX_ICON_DATA_URL_LENGTH - 25
CharLength(c) ==
  CASE c = ImagePrefix -> 11
    [] c = TextPrefix -> 10
    [] c = Blob -> BlobLength
    [] c = PngHead -> 11
    [] c = JpegHead -> 12
    [] c = Pixels -> PixelsLength
    [] OTHER -> 1

RECURSIVE Length(_)
Length(s) == IF s = <<>> THEN 0 ELSE CharLength(Head(s)) + Length(Tail(s))

IsSpace(c) == c = " "

RECURSIVE TrimStart(_)
TrimStart(s) ==
  IF s # <<>> /\ IsSpace(Head(s)) THEN TrimStart(Tail(s)) ELSE s

RECURSIVE TrimEnd(_)
TrimEnd(s) ==
  IF s # <<>> /\ IsSpace(s[Len(s)]) THEN TrimEnd(SubSeq(s, 1, Len(s) - 1)) ELSE s

\* String.prototype.trim
Trim(s) == TrimEnd(TrimStart(s))

\* Slice that cuts nothing
SliceNothing(s, n) == s

\* String.prototype.slice(0, n)
Slice(s, n) == SubSeq(s, 1, Min(Len(s), n))

\* StartsWithImagePrefix of any prefix
StartsWithAnything(s) == s # <<>>

\* String.prototype.startsWith('data:image/')
StartsWithImagePrefix(s) == s # <<>> /\ Head(s) = ImagePrefix

\* The decimal digits
Digits == <<"0", "1", "2", "3", "4", "5", "6", "7", "8", "9">>
IsDigit(c) == \E k \in 1..Len(Digits) : Digits[k] = c
DigitValue(c) == (CHOOSE k \in 1..Len(Digits) : Digits[k] = c) - 1

\* The number a string of digits spells
RECURSIVE ParseDigits(_)
ParseDigits(s) ==
  IF s = <<>> THEN 0
  ELSE 10 * ParseDigits(SubSeq(s, 1, Len(s) - 1)) + DigitValue(s[Len(s)])

\* Number(s) of a string: whitespace is trimmed, the empty string is 0, a
\* string of digits is its number, and a string that spells no number is NaN
\* (signs, fractions and exponents are not spelled by the strings used here)
StringToNumber(s) ==
  LET trimmed == Trim(s)
  IN IF trimmed = <<>> THEN Num(0)
     ELSE IF \A k \in 1..Len(trimmed) : IsDigit(trimmed[k])
       THEN Num(ParseDigits(trimmed) * FP)
     ELSE NaN

\* Number(v)
ToNumber(v) ==
  CASE v.t = "number" -> v
    [] v.t = "nan" -> NaN
    [] v.t = "undefined" -> NaN
    [] v.t = "null" -> Num(0)
    [] v.t = "boolean" -> IF v.b THEN Num(FP) ELSE Num(0)
    [] v.t = "string" -> StringToNumber(v.s)
    [] v.t = "array" ->
         \* Number(String(v)): the elements joined by ","
         IF v.a = <<>> THEN Num(0)
         ELSE IF Len(v.a) > 1 THEN NaN
         ELSE IF v.a[1].t = "number" THEN v.a[1]
         ELSE IF v.a[1].t = "string" THEN StringToNumber(v.a[1].s)
         ELSE IF v.a[1].t \in {"null", "undefined"} THEN Num(0)
         ELSE NaN
    [] OTHER -> NaN

\* Number.isFinite
IsFinite(v) == v.t = "number"

\* Round without the rounding
NoRound(n) == n

\* Math.round(x): the nearest integer, halves up
Round(n) == ((n + (FP \div 2)) \div FP) * FP

\* Math.round(x * 10) / 10
RoundToTenth(n) == ((n + (FP \div 20)) \div (FP \div 10)) * (FP \div 10)

\* ---------------------------------------------------------------- settings
defaultSettings ==
  [enabled |-> Bool(TRUE),
   intervalMinutes |-> Num(45 * FP),
   notificationTitle |-> Str(<<>>),
   notificationMessage |-> Str(<<>>),
   notificationDisplaySeconds |-> Num(30 * FP),
   notificationIconDataUrl |-> Str(<<>>)]

\* The popup's defaults (its display time differs)
popupDefaultSettings ==
  [defaultSettings EXCEPT !.notificationDisplaySeconds = Num(8 * FP)]

\* `input ?? {}`: a missing record reads every field as undefined
EmptyInput ==
  [enabled |-> Undefined,
   intervalMinutes |-> Undefined,
   notificationTitle |-> Undefined,
   notificationMessage |-> Undefined,
   notificationDisplaySeconds |-> Undefined,
   notificationIconDataUrl |-> Undefined]

normalizeWith(defaults, raw) ==
  LET interval == ToNumber(raw.intervalMinutes)
      displaySeconds == ToNumber(raw.notificationDisplaySeconds)
      safeInterval ==
        IF IsFinite(interval)
          THEN Num(Max(MIN_INTERVAL_MINUTES,
                       Min(MAX_INTERVAL_MINUTES, RoundToTenth(interval.n))))
          ELSE defaults.intervalMinutes
      safeDisplaySeconds ==
        IF IsFinite(displaySeconds)
          THEN Num(Max(MinDisplaySeconds,
                       Min(MaxDisplaySeconds, Round(displaySeconds.n))))
          ELSE defaults.notificationDisplaySeconds
      safeTitle ==
        IF raw.notificationTitle.t = "string"
          THEN Str(Slice(Trim(raw.notificationTitle.s), MaxTitleLength))
          ELSE defaults.notificationTitle
      safeMessage ==
        IF raw.notificationMessage.t = "string"
          THEN Str(Slice(Trim(raw.notificationMessage.s), MaxMessageLength))
          ELSE defaults.notificationMessage
      iconRaw ==
        IF raw.notificationIconDataUrl.t = "string"
          THEN Trim(raw.notificationIconDataUrl.s)
          ELSE defaults.notificationIconDataUrl.s
      safeIcon ==
        IF StartsWithImagePrefix(iconRaw)
           /\ Length(iconRaw) <= MAX_ICON_DATA_URL_LENGTH
          THEN Str(iconRaw)
          ELSE Str(<<>>)
  IN [enabled |->
        IF raw.enabled.t = "boolean" THEN raw.enabled ELSE defaults.enabled,
      intervalMinutes |-> safeInterval,
      notificationTitle |-> safeTitle,
      notificationMessage |-> safeMessage,
      notificationDisplaySeconds |-> safeDisplaySeconds,
      notificationIconDataUrl |-> safeIcon]

\* The background's normalizer
normalizeSettings(raw) == normalizeWith(defaultSettings, raw)

\* The popup's normalizer
popupNormalizeSettings(raw) == normalizeWith(popupDefaultSettings, raw)

\* ------------------------------------------------------------ the writers
\* What the popup's form can hand to save(): complete records
UiInput(enabled, interval, icon) ==
  [enabled |-> Bool(enabled),
   intervalMinutes |-> Num(interval),
   notificationTitle |-> Str(<<>>),
   notificationMessage |-> Str(<<>>),
   notificationDisplaySeconds |-> Num(30 * FP),
   notificationIconDataUrl |-> Str(icon)]

UiInputs ==
  { UiInput(TRUE, OneMinute \div 2, <<ImagePrefix, "a">>),
    UiInput(TRUE, OneMinute, <<>>),
    UiInput(FALSE, OneMinute \div 2, <<>>) }

\* What another writer (another page, the developer tools) can leave under
\* the settings key: records that are not normalized
ExternalInputs ==
  { [EmptyInput EXCEPT !.enabled = Str(<<"a">>), !.intervalMinutes = Num(OneMinute + 4)] }

\* --------------------------------------------------------------- the state
VARIABLES
  stored,          \* storage.local[STORAGE_KEY]
  installedAt,     \* storage.local[INSTALLED_AT_KEY], -1 when absent
  pendingChanges,  \* storage.onChanged events for STORAGE_KEY not yet dispatched
  alarm,           \* the alarm ALARM_NAME of browser.alarms
  subMinuteTimer,  \* the module variable: a timeout handle, 0 when undefined
  timeouts,        \* the pending setTimeout(tick, ...) timeouts
  syncs,           \* the syncAlarm invocations
  shows,           \* the showNotification invocations
  notifications,   \* the notifications on display
  dismissals,      \* the pending setTimeout(() => notifications.clear(id))
  now,             \* Date.now()
  finished,        \* the invocation that returned in the step just taken
  page             \* the icon page: its state and its handler in flight

vars ==
  <<stored, installedAt, pendingChanges, alarm, subMinuteTimer, timeouts,
    syncs, shows, notifications, dismissals, now, finished, page>>

NoAlarm == [armed |-> FALSE, periodInMinutes |-> 0, scheduledTime |-> 0, setAt |-> 0]

IdleSync ==
  [pc |-> "idle", settings |-> EmptyInput, log |-> <<>>, respond |-> FALSE,
   solo |-> TRUE]

\* No permission query has been made
NoQuery == [contains |-> "none", level |-> "none"]

IdleShow ==
  [pc |-> "idle", src |-> "none", permission |-> NoQuery, allowed |-> FALSE,
   settings |-> EmptyInput, id |-> 0, log |-> <<>>]

SyncInFlight(i) == syncs[i].pc # "idle"
ShowInFlight(i) == shows[i].pc # "idle"

\* What `finished` holds after a step in which no invocation returned
Nobody == [kind |-> "none"]

InFlight ==
  Cardinality({i \in 1..MaxSyncs : SyncInFlight(i)})
  + Cardinality({i \in 1..MaxShows : ShowInFlight(i)})

\* The slots a new invocation can take
FreeSyncs ==
  IF InFlight < MaxInFlight THEN {i \in 1..MaxSyncs : ~SyncInFlight(i)} ELSE {}
FreeShows ==
  IF InFlight < MaxInFlight THEN {i \in 1..MaxShows : ~ShowInFlight(i)} ELSE {}

Lowest(S) == CHOOSE i \in S : \A j \in S : i <= j

\* The other invocations of syncAlarm that are in flight have had a step of
\* someone else run between two of their own
Disturb(s, i) ==
  [j \in DOMAIN s |->
     IF j # i /\ s[j].pc # "idle"
       THEN [s[j] EXCEPT !.solo = FALSE]
       ELSE s[j]]

\* syncAlarm() is called: it runs to its first await, the storage read of
\* loadSettings
CallSyncAlarm(s, i, respond) ==
  [Disturb(s, i) EXCEPT ![i] =
     [pc |-> "get", settings |-> EmptyInput, log |-> <<>>,
      respond |-> respond, solo |-> TRUE]]

\* showNotification() is called: it runs to its first await, the permission
\* query
CallShowNotification(s, i, src) ==
  [s EXCEPT ![i] = [IdleShow EXCEPT !.pc = "perm", !.src = src]]

\* The icon page's defaults and its normalizeSettings
iconDefaultSettings == defaultSettings

iconNormalizeSettings(raw) == normalizeWith(iconDefaultSettings, raw)

\* No image and no canvas
NoCanvas == [state |-> "none", png |-> <<>>, jpeg90 |-> <<>>, jpeg75 |-> <<>>]

\* The page is not open
ClosedPage ==
  [pc |-> "closed", handler |-> "none", settings |-> iconDefaultSettings,
   canvas |-> NoCanvas, dataUrl |-> <<>>, next |-> iconDefaultSettings,
   uses |-> 0]

\* storage.onChanged reports a key whose value changed
FiresChange(old, new) == old # new

Init ==
  /\ stored = EmptyInput
  /\ installedAt = -1
  /\ pendingChanges = 0
  /\ alarm = NoAlarm
  /\ subMinuteTimer = 0
  /\ timeouts = {}
  /\ syncs = CallSyncAlarm([i \in 1..MaxSyncs |-> IdleSync], 1, FALSE)
  /\ shows = [i \in 1..MaxShows |-> IdleShow]
  /\ notifications = {}
  /\ dismissals = {}
  /\ now = 0
  /\ finished = Nobody
  /\ page = ClosedPage

\* ------------------------------------------------------------- the storage
\* storage.local.set({[STORAGE_KEY]: value}) completes: the value is stored
\* and, when it differs from the old one, a change event is queued
CanWrite(value) == FiresChange(stored, value) => pendingChanges < MaxPending

\* A storage.local.set that persists nothing
WriteNothing(value) ==
  /\ stored' = stored
  /\ pendingChanges' = pendingChanges

Write(value) ==
  /\ stored' = value
  /\ pendingChanges' =
       IF FiresChange(stored, value) THEN pendingChanges + 1 ELSE pendingChanges

\* --------------------------------------------------------------- syncAlarm
MinutesToMs(m) == (m * MsPerMinute) \div FP

\* const intervalMs = settings.intervalMinutes * 60_000
IntervalMs(settings) == (settings.intervalMinutes.n * MsPerMinute) \div FP

\* ArmBranch with `<= 1` for `< 1`
ArmBranchAtOneMinute(settings) ==
  IF ~settings.enabled.b THEN "none"
  ELSE IF settings.intervalMinutes.n <= OneMinute THEN "fine"
  ELSE "coarse"

\* Which timer the invocation arms
ArmBranch(settings) ==
  IF ~settings.enabled.b THEN "none"
  ELSE IF settings.intervalMinutes.n < OneMinute THEN "fine"
  ELSE "coarse"

\* AfterBranch without the `return` that ends the fine branch
AfterBranchFallsThrough(branch) ==
  CASE branch = "none" -> "done"
    [] OTHER -> "create"

\* Where the invocation goes after the branch: it returns, or awaits
\* alarms.create
AfterBranch(branch) ==
  CASE branch = "none" -> "done"
    [] branch = "fine" -> "done"
    [] OTHER -> "create"

\* ClearSubMinuteTimer of a syncAlarm that forgets the handle without
\* clearing the timeout
ClearNothing(pending, handle) == pending

\* if (subMinuteTimer) { clearTimeout(subMinuteTimer); ... }
ClearSubMinuteTimer(pending, handle) ==
  IF handle # 0 THEN {t \in pending : t.h # handle} ELSE pending

\* setTimeout returns a handle no pending timeout has
FreshHandle(pending) ==
  Lowest({h \in 1..(Cardinality(pending) + 1) : \A t \in pending : t.h # h})

\* setTimeout(tick, intervalMs)
SetTimeout(pending, intervalMs) ==
  [h |-> FreshHandle(pending), due |-> now + intervalMs,
   intervalMs |-> intervalMs, setAt |-> now]

\* AlarmInfo without the initial delay
AlarmInfoNoDelay(settings) ==
  [periodInMinutes |-> settings.intervalMinutes.n,
   delayInMinutes |-> 0]

\* The argument of alarms.create
AlarmInfo(settings) ==
  [periodInMinutes |-> settings.intervalMinutes.n,
   delayInMinutes |-> settings.intervalMinutes.n]

\* The invocation returns; a sync-reminder request is answered {ok: true}
Return(sync) ==
  [kind |-> "sync",
   settings |-> sync.settings,
   log |-> sync.log,
   solo |-> sync.solo,
   response |-> IF sync.respond THEN "ok:true" ELSE "none"]

\* loadSettings: storage.local.get completes, the value is normalized and
\* storage.local.set is issued
SyncGet(i) ==
  /\ syncs[i].pc = "get"
  /\ syncs' = [Disturb(syncs, i) EXCEPT
                 ![i].pc = "set",
                 ![i].settings = normalizeSettings(stored)]
  /\ finished' = Nobody
  /\ UNCHANGED <<stored, installedAt, pendingChanges, alarm, subMinuteTimer,
                 timeouts, shows, notifications, dismissals, now,
                 page>>

\* loadSettings: storage.local.set completes; syncAlarm issues alarms.clear
SyncSet(i) ==
  /\ syncs[i].pc = "set"
  /\ CanWrite(syncs[i].settings)
  /\ Write(syncs[i].settings)
  /\ syncs' = [Disturb(syncs, i) EXCEPT ![i].pc = "clear"]
  /\ finished' = Nobody
  /\ UNCHANGED <<installedAt, alarm, subMinuteTimer, timeouts, shows,
                 notifications, dismissals, now,
                 page>>

\* alarms.clear completes; the fine timer is cleared; the invocation returns,
\* arms the fine timer and returns, or issues alarms.create
SyncClear(i) ==
  /\ syncs[i].pc = "clear"
  /\ LET settings == syncs[i].settings
         branch == ArmBranch(settings)
         cleared == ClearSubMinuteTimer(timeouts, subMinuteTimer)
         armed == SetTimeout(cleared, IntervalMs(settings))
     IN /\ alarm' = NoAlarm
        /\ timeouts' = IF branch = "fine" THEN cleared \cup {armed} ELSE cleared
        /\ subMinuteTimer' = IF branch = "fine" THEN armed.h ELSE 0
        /\ LET sync == [syncs[i] EXCEPT
                           !.log = @ \o <<"clearCoarse", "clearFine">>
                                     \o (IF branch = "fine"
                                           THEN <<"armFine">> ELSE <<>>)]
           IN IF AfterBranch(branch) = "done"
                THEN /\ syncs' = [Disturb(syncs, i) EXCEPT ![i] = IdleSync]
                     /\ finished' = Return(sync)
                ELSE /\ syncs' = [Disturb(syncs, i) EXCEPT
                                    ![i] = [sync EXCEPT !.pc = "create"]]
                     /\ finished' = Nobody
  /\ UNCHANGED <<stored, installedAt, pendingChanges, shows, notifications,
                 dismissals, now,
                 page>>

\* alarms.create completes; the invocation returns
SyncCreate(i) ==
  /\ syncs[i].pc = "create"
  /\ LET info == AlarmInfo(syncs[i].settings)
     IN alarm' = [armed |-> TRUE,
                  periodInMinutes |-> info.periodInMinutes,
                  scheduledTime |-> now + MinutesToMs(info.delayInMinutes),
                  setAt |-> now]
  /\ syncs' = [Disturb(syncs, i) EXCEPT ![i] = IdleSync]
  /\ finished' = Return([syncs[i] EXCEPT !.log = @ \o <<"armCoarse">>])
  /\ UNCHANGED <<stored, installedAt, pendingChanges, subMinuteTimer, timeouts,
                 shows, notifications, dismissals, now,
                 page>>

\* ------------------------------------------------- hasNotificationPermission
\* What permissions.contains can do, and what notifications.getPermissionLevel
\* can do ("absent": the function does not exist on this platform)
ContainsOutcomes == {"true", "false", "throws", "absent"}
LevelOutcomes == {"granted", "denied", "throws", "absent"}

\* hasNotificationPermission that takes everything but a denial for a grant
PermissionUnlessDenied(contains, level) ==
  contains = "true" \/ level # "denied"

hasNotificationPermission(contains, level) ==
  IF contains = "true" THEN TRUE
  ELSE IF level = "absent" THEN FALSE
  ELSE IF level = "throws" THEN FALSE
  ELSE level = "granted"

\* -------------------------------------------------------- showNotification
\* AfterPermission without the early return
AfterPermissionIgnored(allowed) == "get"

\* if (!allowed) return false
AfterPermission(allowed) == IF allowed THEN "get" ELSE "done"

\* const tryCustomIcon = ...; if (tryCustomIcon) {...}; if (!created) {...}
FirstAttempt(settings) ==
  IF settings.notificationIconDataUrl.s # <<>> THEN "createCustom"
  ELSE "createDefault"

\* AfterCustom without the `if (!created)`
AfterCustomAlways(created) == "createDefault"

\* if (!created) { await notifications.create(id, {iconUrl, ...}) }
AfterCustom(created) == IF created THEN "return" ELSE "createDefault"

\* settings.notificationDisplaySeconds * 1000
DisplayMs(settings) == (settings.notificationDisplaySeconds.n * MsPerSecond) \div FP

\* showNotification().then((ok) => ({ ok })): what the sender of a
\* test-notification request receives
Response(result) ==
  CASE result = "true" -> "ok:true"
    [] result = "false" -> "ok:false"
    [] OTHER -> "rejected"

\* The invocation ends: it returns true or false, or it throws
Finish(show, result) ==
  [kind |-> "show",
   src |-> show.src,
   permission |-> show.permission,
   allowed |-> show.allowed,
   log |-> show.log,
   result |-> result,
   response |-> IF show.src = "test" THEN Response(result) ELSE "none"]

\* notifications.create(id, {...}) succeeds: a notification of that
\* identifier is replaced
Created(id) == notifications \cup {id}

\* ReturnTrue without the setTimeout
ReturnTrueForgets(show) == dismissals' = dismissals

\* setTimeout(() => notifications.clear(id), displaySeconds * 1000); return true
ReturnTrue(show) ==
  /\ dismissals' = dismissals \cup
       {[id |-> show.id, due |-> now + DisplayMs(show.settings)]}

\* The permission query completes; what the two queries did is kept until the
\* next step of the invocation
ShowPerm(i) ==
  /\ shows[i].pc = "perm"
  /\ \E contains \in ContainsOutcomes, level \in LevelOutcomes :
       LET allowed == hasNotificationPermission(contains, level)
           show == [shows[i] EXCEPT
                      !.allowed = allowed,
                      !.permission = [contains |-> contains, level |-> level]]
       IN IF AfterPermission(allowed) = "done"
            THEN /\ shows' = [shows EXCEPT ![i] = IdleShow]
                 /\ finished' = Finish(show, "false")
            ELSE /\ shows' = [shows EXCEPT ![i] = [show EXCEPT !.pc = "get"]]
                 /\ finished' = Nobody
  /\ syncs' = Disturb(syncs, 0)
  /\ UNCHANGED <<stored, installedAt, pendingChanges, alarm, subMinuteTimer,
                 timeouts, notifications, dismissals, now,
                 page>>

\* loadSettings: storage.local.get completes
ShowGet(i) ==
  /\ shows[i].pc = "get"
  /\ shows' = [shows EXCEPT
                 ![i].pc = "set",
                 ![i].permission = NoQuery,
                 ![i].settings = normalizeSettings(stored),
                 ![i].log = @ \o <<"get">>]
  /\ syncs' = Disturb(syncs, 0)
  /\ finished' = Nobody
  /\ UNCHANGED <<stored, installedAt, pendingChanges, alarm, subMinuteTimer,
                 timeouts, notifications, dismissals, now,
                 page>>

\* loadSettings: storage.local.set completes; the identifier is taken from
\* the clock and the first notifications.create is issued
ShowSet(i) ==
  /\ shows[i].pc = "set"
  /\ CanWrite(shows[i].settings)
  /\ Write(shows[i].settings)
  /\ LET first == FirstAttempt(shows[i].settings)
     IN shows' = [shows EXCEPT
                    ![i].pc = first,
                    ![i].id = now,
                    ![i].log = @ \o <<"set">> \o
                      (IF first = "createCustom"
                         THEN <<"tryCustom">> ELSE <<"tryDefault">>)]
  /\ syncs' = Disturb(syncs, 0)
  /\ finished' = Nobody
  /\ UNCHANGED <<installedAt, alarm, subMinuteTimer, timeouts, notifications,
                 dismissals, now,
                 page>>

\* notifications.create with the custom icon completes or is rejected
ShowCreateCustom(i) ==
  /\ shows[i].pc = "createCustom"
  /\ \E ok \in BOOLEAN :
       LET show == [shows[i] EXCEPT
                      !.log = @ \o <<IF ok THEN "created" ELSE "rejected">>]
       IN /\ notifications' =
               IF ok THEN Created(show.id) ELSE notifications
          /\ IF AfterCustom(ok) = "return"
               THEN /\ ReturnTrue(show)
                    /\ shows' = [shows EXCEPT ![i] = IdleShow]
                    /\ finished' =
                         Finish([show EXCEPT !.log = @ \o <<"dismiss">>], "true")
               ELSE /\ dismissals' = dismissals
                    /\ shows' = [shows EXCEPT ![i] =
                         [show EXCEPT !.pc = "createDefault",
                                      !.log = @ \o <<"tryDefault">>]]
                    /\ finished' = Nobody
  /\ syncs' = Disturb(syncs, 0)
  /\ UNCHANGED <<stored, installedAt, pendingChanges, alarm, subMinuteTimer,
                 timeouts, now,
                 page>>

\* notifications.create with the bundled icon completes or is rejected; the
\* rejection is not caught
ShowCreateDefault(i) ==
  /\ shows[i].pc = "createDefault"
  /\ \E ok \in BOOLEAN :
       LET show == [shows[i] EXCEPT
                      !.log = @ \o <<IF ok THEN "created" ELSE "rejected">>]
       IN IF ok
            THEN /\ notifications' = Created(show.id)
                 /\ ReturnTrue(show)
                 /\ finished' =
                      Finish([show EXCEPT !.log = @ \o <<"dismiss">>], "true")
            ELSE /\ notifications' = notifications
                 /\ dismissals' = dismissals
                 /\ finished' = Finish(show, "threw")
  /\ shows' = [shows EXCEPT ![i] = IdleShow]
  /\ syncs' = Disturb(syncs, 0)
  /\ UNCHANGED <<stored, installedAt, pendingChanges, alarm, subMinuteTimer,
                 timeouts, now,
                 page>>

\* The auto-dismiss callback of a program that also clears the fine timer
DismissClearsTimer(d) ==
  /\ d \in dismissals
  /\ d.due <= now
  /\ dismissals' = dismissals \ {d}
  /\ notifications' = notifications \ {d.id}
  /\ timeouts' = {}
  /\ subMinuteTimer' = 0
  /\ syncs' = Disturb(syncs, 0)
  /\ finished' = Nobody
  /\ UNCHANGED <<stored, installedAt, pendingChanges, alarm, shows, now,
                 page>>

\* The auto-dismiss timeout fires: notifications.clear(id)
Dismiss(d) ==
  /\ d \in dismissals
  /\ d.due <= now
  /\ dismissals' = dismissals \ {d}
  /\ notifications' = notifications \ {d.id}
  /\ syncs' = Disturb(syncs, 0)
  /\ finished' = Nobody
  /\ UNCHANGED <<stored, installedAt, pendingChanges, alarm, subMinuteTimer,
                 timeouts, shows, now,
                 page>>

\* --------------------------------------------------------------- the timers
\* TickRearm of a tick that only shows the notification
TickRearmNever(pending, intervalMs) == {}

\* tick: subMinuteTimer = setTimeout(tick, intervalMs)
TickRearm(pending, intervalMs) == {SetTimeout(pending, intervalMs)}

\* A timeout set by syncAlarm or by an earlier tick fires
Tick(t) ==
  /\ t \in timeouts
  /\ t.due <= now
  /\ FreeShows # {}
  /\ LET rest == timeouts \ {t}
         rearm == TickRearm(rest, t.intervalMs)
     IN /\ timeouts' = rest \cup rearm
        /\ subMinuteTimer' =
             IF rearm = {} THEN subMinuteTimer ELSE (CHOOSE r \in rearm : TRUE).h
  /\ shows' = CallShowNotification(shows, Lowest(FreeShows), "tick")
  /\ syncs' = Disturb(syncs, 0)
  /\ finished' = Nobody
  /\ UNCHANGED <<stored, installedAt, pendingChanges, alarm, notifications,
                 dismissals, now,
                 page>>

\* alarms.onAlarm: the periodic alarm fires and is scheduled again
OnAlarm ==
  /\ alarm.armed
  /\ alarm.scheduledTime <= now
  /\ FreeShows # {}
  /\ alarm' = [alarm EXCEPT
                 !.scheduledTime = now + MinutesToMs(alarm.periodInMinutes),
                 !.setAt = now]
  /\ shows' = CallShowNotification(shows, Lowest(FreeShows), "alarm")
  /\ syncs' = Disturb(syncs, 0)
  /\ finished' = Nobody
  /\ UNCHANGED <<stored, installedAt, pendingChanges, subMinuteTimer, timeouts,
                 notifications, dismissals, now,
                 page>>

\* ------------------------------------------------------------ the listeners
\* runtime.onInstalled
OnInstalled ==
  /\ FreeSyncs # {}
  /\ installedAt' = now
  /\ syncs' = CallSyncAlarm(syncs, Lowest(FreeSyncs), FALSE)
  /\ finished' = Nobody
  /\ UNCHANGED <<stored, pendingChanges, alarm, subMinuteTimer, timeouts, shows,
                 notifications, dismissals, now,
                 page>>

\* runtime.onStartup
OnStartup ==
  /\ FreeSyncs # {}
  /\ syncs' = CallSyncAlarm(syncs, Lowest(FreeSyncs), FALSE)
  /\ finished' = Nobody
  /\ UNCHANGED <<stored, installedAt, pendingChanges, alarm, subMinuteTimer,
                 timeouts, shows, notifications, dismissals, now,
                 page>>

\* storage.onChanged with area 'local' and changes[STORAGE_KEY]
OnChanged ==
  /\ pendingChanges > 0
  /\ FreeSyncs # {}
  /\ pendingChanges' = pendingChanges - 1
  /\ syncs' = CallSyncAlarm(syncs, Lowest(FreeSyncs), FALSE)
  /\ finished' = Nobody
  /\ UNCHANGED <<stored, installedAt, alarm, subMinuteTimer, timeouts, shows,
                 notifications, dismissals, now,
                 page>>

\* OnMessageSync that answers without waiting for syncAlarm
OnMessageSyncAnswersAtOnce ==
  /\ FreeSyncs # {}
  /\ syncs' = CallSyncAlarm(syncs, Lowest(FreeSyncs), FALSE)
  /\ finished' = Return([IdleSync EXCEPT !.respond = TRUE,
                                         !.settings = defaultSettings])
  /\ UNCHANGED <<stored, installedAt, pendingChanges, alarm, subMinuteTimer,
                 timeouts, shows, notifications, dismissals, now,
                 page>>

\* runtime.onMessage with {type: 'sync-reminder'}
OnMessageSync ==
  /\ FreeSyncs # {}
  /\ syncs' = CallSyncAlarm(syncs, Lowest(FreeSyncs), TRUE)
  /\ finished' = Nobody
  /\ UNCHANGED <<stored, installedAt, pendingChanges, alarm, subMinuteTimer,
                 timeouts, shows, notifications, dismissals, now,
                 page>>

\* runtime.onMessage with {type: 'test-notification'}
OnMessageTest ==
  /\ FreeShows # {}
  /\ shows' = CallShowNotification(shows, Lowest(FreeShows), "test")
  /\ syncs' = Disturb(syncs, 0)
  /\ finished' = Nobody
  /\ UNCHANGED <<stored, installedAt, pendingChanges, alarm, subMinuteTimer,
                 timeouts, notifications, dismissals, now,
                 page>>

\* ------------------------------------------------------------- the writers
\* The popup's save(next): normalize and storage.local.set
PopupSave(next) ==
  /\ CanWrite(popupNormalizeSettings(next))
  /\ Write(popupNormalizeSettings(next))
  /\ syncs' = Disturb(syncs, 0)
  /\ finished' = Nobody
  /\ UNCHANGED <<installedAt, alarm, subMinuteTimer, timeouts, shows,
                 notifications, dismissals, now,
                 page>>

\* Another writer sets the settings key
ExternalWrite(value) ==
  /\ CanWrite(value)
  /\ Write(value)
  /\ syncs' = Disturb(syncs, 0)
  /\ finished' = Nobody
  /\ UNCHANGED <<installedAt, alarm, subMinuteTimer, timeouts, shows,
                 notifications, dismissals, now,
                 page>>

\* ---------------------------------------------------------------- the clock
DueTimes ==
  {t.due : t \in timeouts} \cup {d.due : d \in dismissals}
  \cup (IF alarm.armed THEN {alarm.scheduledTime} ELSE {})

\* Time passes: by the clock's step, or up to the next timer
Advance ==
  /\ \E next \in {now + Quantum} \cup {due \in DueTimes : due > now} :
       /\ next <= MaxTime
       /\ \A due \in DueTimes : due > now => next <= Max(due, now + Quantum)
       /\ now' = next
  /\ finished' = Nobody
  /\ UNCHANGED <<stored, installedAt, pendingChanges, alarm, subMinuteTimer,
                 timeouts, syncs, shows, notifications, dismissals,
                 page>>

Next ==
  \/ \E i \in 1..MaxSyncs : SyncGet(i)
  \/ \E i \in 1..MaxSyncs : SyncSet(i)
  \/ \E i \in 1..MaxSyncs : SyncClear(i)
  \/ \E i \in 1..MaxSyncs : SyncCreate(i)
  \/ \E i \in 1..MaxShows : ShowPerm(i)
  \/ \E i \in 1..MaxShows : ShowGet(i)
  \/ \E i \in 1..MaxShows : ShowSet(i)
  \/ \E i \in 1..MaxShows : ShowCreateCustom(i)
  \/ \E i \in 1..MaxShows : ShowCreateDefault(i)
  \/ \E d \in dismissals : Dismiss(d)
  \/ \E t \in timeouts : Tick(t)
  \/ OnAlarm
  \/ OnInstalled
  \/ OnStartup
  \/ OnChanged
  \/ OnMessageSync
  \/ OnMessageTest
  \/ \E next \in UiInputs : PopupSave(next)
  \/ \E value \in ExternalInputs : ExternalWrite(value)
  \/ Advance

\* The program under every event
Spec == Init /\ [][Next]_vars

\* What the host can dispatch within one instant of the clock: every listener
\* and every writer, no timer comes due
NextHost ==
  \/ \E i \in 1..MaxSyncs : SyncGet(i)
  \/ \E i \in 1..MaxSyncs : SyncSet(i)
  \/ \E i \in 1..MaxSyncs : SyncClear(i)
  \/ \E i \in 1..MaxSyncs : SyncCreate(i)
  \/ \E i \in 1..MaxShows : ShowPerm(i)
  \/ \E i \in 1..MaxShows : ShowGet(i)
  \/ \E i \in 1..MaxShows : ShowSet(i)
  \/ \E i \in 1..MaxShows : ShowCreateCustom(i)
  \/ \E i \in 1..MaxShows : ShowCreateDefault(i)
  \/ OnInstalled
  \/ OnStartup
  \/ OnChanged
  \/ OnMessageSync
  \/ OnMessageTest
  \/ \E next \in UiInputs : PopupSave(next)
  \/ \E value \in ExternalInputs : ExternalWrite(value)

SpecHost == Init /\ [][NextHost]_vars

\* The program driven by the popup's saves while the clock runs: the timers
\* come due, the reminders are shown and dismissed
NextClock ==
  \/ \E i \in 1..MaxSyncs : SyncGet(i)
  \/ \E i \in 1..MaxSyncs : SyncSet(i)
  \/ \E i \in 1..MaxSyncs : SyncClear(i)
  \/ \E i \in 1..MaxSyncs : SyncCreate(i)
  \/ \E i \in 1..MaxShows : ShowPerm(i)
  \/ \E i \in 1..MaxShows : ShowGet(i)
  \/ \E i \in 1..MaxShows : ShowSet(i)
  \/ \E i \in 1..MaxShows : ShowCreateCustom(i)
  \/ \E i \in 1..MaxShows : ShowCreateDefault(i)
  \/ \E d \in dismissals : Dismiss(d)
  \/ \E t \in timeouts : Tick(t)
  \/ OnAlarm
  \/ OnChanged
  \/ \E next \in UiInputs : PopupSave(next)
  \/ Advance

SpecClock == Init /\ [][NextClock]_vars

\* ------------------------------------------------ what the storage can hold
\* Values of the settings key that no normalizer wrote: another page, the
\* developer tools or an older version left them there.  One field at a time
\* departs from the absent record.
Repeat(c, n) == [k \in 1..n |-> c]

\* Numbers around x, step apart
Around(x, step) == {x + d * step : d \in (0 - Spread)..Spread}

IntervalNumbers ==
  Around(MIN_INTERVAL_MINUTES, 1) \cup Around(OneMinute, 1)
  \cup Around(MAX_INTERVAL_MINUTES, 1) \cup {500 * FP, 0 - OneMinute}

DisplayNumbers ==
  Around(MinDisplaySeconds, FP \div 4) \cup Around(MaxDisplaySeconds, FP \div 4)
  \cup {0, 30 * FP}

\* Values that are not finite numbers
NotNumbers ==
  { Undefined, Null, NaN, Bool(TRUE), Bool(FALSE), Str(<<>>), Str(<<" ">>),
    Str(<<"1", "2">>), Str(<<"a">>), Arr(<<>>), Arr(<<Num(2 * FP)>>),
    Arr(<<Num(FP), Num(FP)>>) }

\* Values that are not strings
NotStrings ==
  { Undefined, Null, NaN, Num(FP), Bool(TRUE), Arr(<<>>), Arr(<<Str(<<"a">>)>>) }

\* Values that are not booleans
NotBooleans ==
  { Undefined, Null, Num(0), Num(FP), Str(<<>>), Str(<<"a">>), Arr(<<>>) }

\* Texts about as long as the cap: n times "a", a gap of spaces, m times "b"
Text(n, gap, m) == Repeat("a", n) \o Repeat(" ", gap) \o Repeat("b", m)

Texts(cap) ==
  { Text(cap - k, gap, m) : k \in 0..MaxPad, gap \in 0..1, m \in 0..MaxPad }
  \cup { <<>>, <<" ">>, <<" ", "a", " ">>, <<"a", " ", "b">> }

IconTexts ==
  { <<>>,
    <<ImagePrefix, "a">>,
    <<" ", ImagePrefix, "a", " ">>,
    <<TextPrefix, "a">>,
    <<"a", ImagePrefix>>,
    <<ImagePrefix, Blob>>,
    <<ImagePrefix, Blob, "a">>,
    <<ImagePrefix, Blob, " ">>,
    <<" ", ImagePrefix, Blob>> }

RawInputs ==
  { [EmptyInput EXCEPT !.intervalMinutes = v] :
      v \in {Num(n) : n \in IntervalNumbers} \cup NotNumbers }
  \cup { [EmptyInput EXCEPT !.notificationDisplaySeconds = v] :
           v \in {Num(n) : n \in DisplayNumbers} \cup NotNumbers }
  \cup { [EmptyInput EXCEPT !.notificationTitle = v] :
           v \in {Str(x) : x \in Texts(MaxTitleLength)} \cup NotStrings }
  \cup { [EmptyInput EXCEPT !.notificationMessage = v] :
           v \in {Str(x) : x \in Texts(MaxMessageLength)} \cup NotStrings }
  \cup { [EmptyInput EXCEPT !.notificationIconDataUrl = v] :
           v \in {Str(x) : x \in IconTexts} \cup NotStrings }
  \cup { [EmptyInput EXCEPT !.enabled = v] :
           v \in {Bool(TRUE), Bool(FALSE)} \cup NotBooleans }

\* The background script is loaded over any such value
InitLoad ==
  /\ stored \in RawInputs
  /\ installedAt = -1
  /\ pendingChanges = 0
  /\ alarm = NoAlarm
  /\ subMinuteTimer = 0
  /\ timeouts = {}
  /\ syncs = CallSyncAlarm([i \in 1..MaxSyncs |-> IdleSync], 1, FALSE)
  /\ shows = [i \in 1..MaxShows |-> IdleShow]
  /\ notifications = {}
  /\ dismissals = {}
  /\ now = 0
  /\ finished = Nobody
  /\ page = ClosedPage

\* The script loads, normalizes and writes back what it found, arms its timer,
\* and does so again for each change its own write has made
NextLoad ==
  \/ \E i \in 1..MaxSyncs : SyncGet(i)
  \/ \E i \in 1..MaxSyncs : SyncSet(i)
  \/ \E i \in 1..MaxSyncs : SyncClear(i)
  \/ \E i \in 1..MaxSyncs : SyncCreate(i)
  \/ OnChanged

SpecLoad == InitLoad /\ [][NextLoad]_vars

\* ------------------------------------------------------------ the claims

\* ------------------------------------------------------------ the icon page
\* What canvas.toDataURL can return: 'data:image/png;base64,...' or
\* 'data:image/jpeg;base64,...' of a given length, the payload being a run of
\* one character (the two JPEG qualities differ in their payload)
Encoding(head, mark, length) ==
  <<ImagePrefix, head, Pixels>>
    \o Repeat(mark, length - (11 + CharLength(head) + PixelsLength))

\* A short encoding, one exactly as long as the cap and one beyond it
Encodings(head, mark) ==
  {<<ImagePrefix, head, mark>>}
  \cup {Encoding(head, mark, MAX_ICON_DATA_URL_LENGTH + over) : over \in 0..1}

PngEncodings == Encodings(PngHead, "p")
Jpeg90Encodings == Encodings(JpegHead, "9")
Jpeg75Encodings == Encodings(JpegHead, "7")

\* What the browser does with the image and the canvas of one call: the image
\* fails to load (img.onerror), getContext('2d') gives null, or the image is
\* drawn and the canvas has these encodings
LoadFails == [NoCanvas EXCEPT !.state = "loadFails"]
NoContext == [NoCanvas EXCEPT !.state = "noContext"]
Drawn(png, jpeg90, jpeg75) ==
  [state |-> "drawn", png |-> png, jpeg90 |-> jpeg90, jpeg75 |-> jpeg75]

UploadCanvases ==
  {LoadFails, NoContext}
  \cup {Drawn(png, jpeg90, jpeg75) :
          png \in PngEncodings, jpeg90 \in Jpeg90Encodings,
          jpeg75 \in Jpeg75Encodings}

PickCanvases ==
  {LoadFails, NoContext} \cup {Drawn(png, <<>>, <<>>) : png \in PngEncodings}

\* What an async function gives its caller
Returned(value) == [threw |-> FALSE, value |-> value]
Thrown == [threw |-> TRUE, value |-> <<>>]

\* fileToSquareDataUrl that falls to the last tier as soon as the PNG is over
\* the cap
fileToSquareDataUrlSkipsTier(canvas) ==
  IF canvas.state = "loadFails" THEN Thrown
  ELSE IF canvas.state = "noContext" THEN Returned(<<>>)
  ELSE IF Length(canvas.png) <= MAX_ICON_DATA_URL_LENGTH
    THEN Returned(canvas.png)
  ELSE Returned(canvas.jpeg75)

\* fileToSquareDataUrl(file, size)
fileToSquareDataUrl(canvas) ==
  IF canvas.state = "loadFails" THEN Thrown
  ELSE IF canvas.state = "noContext" THEN Returned(<<>>)
  ELSE IF Length(canvas.png) <= MAX_ICON_DATA_URL_LENGTH
    THEN Returned(canvas.png)
  ELSE IF Length(canvas.jpeg90) <= MAX_ICON_DATA_URL_LENGTH
    THEN Returned(canvas.jpeg90)
  ELSE Returned(canvas.jpeg75)

\* iconComponentToPngDataUrl that returns its PNG whatever its length
iconComponentToPngDataUrlUnchecked(canvas) ==
  IF canvas.state = "noContext" THEN Returned(<<>>)
  ELSE IF canvas.state = "loadFails" THEN Thrown
  ELSE Returned(canvas.png)

\* iconComponentToPngDataUrl(Icon, bg, transparentBg, fg)
iconComponentToPngDataUrl(canvas) ==
  IF canvas.state = "noContext" THEN Returned(<<>>)
  ELSE IF canvas.state = "loadFails" THEN Thrown
  ELSE IF Length(canvas.png) <= MAX_ICON_DATA_URL_LENGTH
    THEN Returned(canvas.png)
  ELSE Returned(<<>>)

\* The page has mounted: its effect has issued the storage read
MountedPage == [ClosedPage EXCEPT !.pc = "loading"]

\* A handler of the page ends: what its pipeline gave, whether the handler
\* ended normally or rejected, and the message it set
PageEnds(handler, canvas, pipeline, result, message) ==
  [kind |-> "page", handler |-> handler, canvas |-> canvas,
   pipeline |-> pipeline, result |-> result, message |-> message]

\* The handler has returned: its locals are gone
Idle(p) ==
  [p EXCEPT !.pc = "idle", !.handler = "none", !.dataUrl = <<>>,
            !.next = iconDefaultSettings, !.canvas = NoCanvas]

\* useEffect: storage.local.get completes; setSettings, setLoading(false)
PageLoad ==
  /\ page.pc = "loading"
  /\ page' = [page EXCEPT !.pc = "idle",
                          !.settings = iconNormalizeSettings(stored)]
  /\ syncs' = Disturb(syncs, 0)
  /\ finished' = Nobody
  /\ UNCHANGED <<stored, installedAt, pendingChanges, alarm, subMinuteTimer,
                 timeouts, shows, notifications, dismissals, now>>

\* onUpload(file) is called: it runs to the await of the image load in
\* fileToSquareDataUrl
PageUpload ==
  /\ page.pc = "idle"
  /\ page.uses < MaxUses
  /\ \E canvas \in UploadCanvases :
       page' = [page EXCEPT !.pc = "decode", !.handler = "upload",
                            !.canvas = canvas, !.uses = @ + 1]
  /\ syncs' = Disturb(syncs, 0)
  /\ finished' = Nobody
  /\ UNCHANGED <<stored, installedAt, pendingChanges, alarm, subMinuteTimer,
                 timeouts, shows, notifications, dismissals, now>>

\* onUpload: fileToSquareDataUrl settles; the handler ends with a message or
\* calls saveIcon, which issues its storage read
UploadDecoded ==
  /\ page.pc = "decode"
  /\ LET pipeline == fileToSquareDataUrl(page.canvas)
         safe == iconNormalizeSettings(
                   [page.settings EXCEPT
                      !.notificationIconDataUrl = Str(pipeline.value)])
         ends(message) ==
           /\ page' = Idle(page)
           /\ finished' = PageEnds("upload", page.canvas, pipeline, "ended",
                                   message)
     IN IF pipeline.threw THEN ends("failedToSetIcon")
        ELSE IF pipeline.value = <<>> THEN ends("iconReadFailed")
        ELSE IF safe.notificationIconDataUrl.s = <<>>
          THEN ends("iconTooLargeOrUnsupported")
        ELSE /\ page' = [page EXCEPT
                           !.pc = "saveGet",
                           !.dataUrl = safe.notificationIconDataUrl.s]
             /\ finished' = Nobody
  /\ syncs' = Disturb(syncs, 0)
  /\ UNCHANGED <<stored, installedAt, pendingChanges, alarm, subMinuteTimer,
                 timeouts, shows, notifications, dismissals, now>>

\* onPickBuiltin(Icon) is called: it runs to the await of the image load in
\* iconComponentToPngDataUrl, or past it when there is no context
PagePick ==
  /\ page.pc = "idle"
  /\ page.uses < MaxUses
  /\ \E canvas \in PickCanvases :
       page' = [page EXCEPT !.pc = "render", !.handler = "pick",
                            !.canvas = canvas, !.uses = @ + 1]
  /\ syncs' = Disturb(syncs, 0)
  /\ finished' = Nobody
  /\ UNCHANGED <<stored, installedAt, pendingChanges, alarm, subMinuteTimer,
                 timeouts, shows, notifications, dismissals, now>>

\* onPickBuiltin: iconComponentToPngDataUrl settles; the handler rejects, ends
\* with a message or calls saveIcon
PickRendered ==
  /\ page.pc = "render"
  /\ LET pipeline == iconComponentToPngDataUrl(page.canvas)
     IN IF pipeline.threw
          THEN /\ page' = Idle(page)
               /\ finished' = PageEnds("pick", page.canvas, pipeline, "threw",
                                       "none")
        ELSE IF pipeline.value = <<>>
          THEN /\ page' = Idle(page)
               /\ finished' = PageEnds("pick", page.canvas, pipeline, "ended",
                                       "failedToGenerateBuiltinIcon")
        ELSE /\ page' = [page EXCEPT !.pc = "saveGet",
                                     !.dataUrl = pipeline.value]
             /\ finished' = Nobody
  /\ syncs' = Disturb(syncs, 0)
  /\ UNCHANGED <<stored, installedAt, pendingChanges, alarm, subMinuteTimer,
                 timeouts, shows, notifications, dismissals, now>>

\* onResetDefault(): saveIcon('')
PageReset ==
  /\ page.pc = "idle"
  /\ page.uses < MaxUses
  /\ page' = [page EXCEPT !.pc = "saveGet", !.handler = "reset",
                          !.dataUrl = <<>>, !.uses = @ + 1]
  /\ syncs' = Disturb(syncs, 0)
  /\ finished' = Nobody
  /\ UNCHANGED <<stored, installedAt, pendingChanges, alarm, subMinuteTimer,
                 timeouts, shows, notifications, dismissals, now>>

\* saveIcon: storage.local.get completes; current and next are normalized and
\* storage.local.set is issued
SaveGet ==
  /\ page.pc = "saveGet"
  /\ LET current == iconNormalizeSettings(stored)
     IN page' = [page EXCEPT
                   !.pc = "saveSet",
                   !.next = iconNormalizeSettings(
                              [current EXCEPT
                                 !.notificationIconDataUrl = Str(page.dataUrl)])]
  /\ syncs' = Disturb(syncs, 0)
  /\ finished' = Nobody
  /\ UNCHANGED <<stored, installedAt, pendingChanges, alarm, subMinuteTimer,
                 timeouts, shows, notifications, dismissals, now>>

\* saveIcon: storage.local.set completes; the sync-reminder request is sent
SaveSet ==
  /\ page.pc = "saveSet"
  /\ CanWrite(page.next)
  /\ Write(page.next)
  /\ page' = [page EXCEPT !.pc = "saveSend"]
  /\ syncs' = Disturb(syncs, 0)
  /\ finished' = Nobody
  /\ UNCHANGED <<installedAt, alarm, subMinuteTimer, timeouts, shows,
                 notifications, dismissals, now>>

\* The request reaches runtime.onMessage, which calls syncAlarm
SaveSend ==
  /\ page.pc = "saveSend"
  /\ FreeSyncs # {}
  /\ syncs' = CallSyncAlarm(syncs, Lowest(FreeSyncs), TRUE)
  /\ page' = [page EXCEPT !.pc = "saveWait"]
  /\ finished' = Nobody
  /\ UNCHANGED <<stored, installedAt, pendingChanges, alarm, subMinuteTimer,
                 timeouts, shows, notifications, dismissals, now>>

\* saveIcon: the request is answered; setSettings(next), setMessage; the
\* handler ends
SaveAnswered ==
  /\ page.pc = "saveWait"
  /\ \A i \in 1..MaxSyncs : ~(SyncInFlight(i) /\ syncs[i].respond)
  /\ page' = [Idle(page) EXCEPT !.settings = page.next]
  /\ finished' = PageEnds(page.handler, page.canvas, Returned(page.dataUrl),
                          "ended", "saved")
  /\ syncs' = Disturb(syncs, 0)
  /\ UNCHANGED <<stored, installedAt, pendingChanges, alarm, subMinuteTimer,
                 timeouts, shows, notifications, dismissals, now>>

\* What the icon page can find under the settings key when it opens
IconPageInputs ==
  { EmptyInput,
    popupNormalizeSettings(UiInput(TRUE, OneMinute, <<ImagePrefix, "a">>)),
    [EmptyInput EXCEPT !.notificationIconDataUrl = Str(<<ImagePrefix, Blob, "a">>)],
    [EmptyInput EXCEPT !.notificationTitle = Str(Repeat("a", MaxTitleLength + 1)),
                       !.intervalMinutes = Num(0)] }

\* The icon page opens while the background script loads
InitIcon ==
  /\ stored \in IconPageInputs
  /\ installedAt = -1
  /\ pendingChanges = 0
  /\ alarm = NoAlarm
  /\ subMinuteTimer = 0
  /\ timeouts = {}
  /\ syncs = CallSyncAlarm([i \in 1..MaxSyncs |-> IdleSync], 1, FALSE)
  /\ shows = [i \in 1..MaxShows |-> IdleShow]
  /\ notifications = {}
  /\ dismissals = {}
  /\ now = 0
  /\ finished = Nobody
  /\ page = MountedPage

\* The icon page's handlers, and the background script's syncAlarm for the
\* requests and the changes they cause
NextIcon ==
  \/ PageLoad
  \/ PageUpload
  \/ UploadDecoded
  \/ PagePick
  \/ PickRendered
  \/ PageReset
  \/ SaveGet
  \/ SaveSet
  \/ SaveSend
  \/ SaveAnswered
  \/ \E i \in 1..MaxSyncs : SyncGet(i)
  \/ \E i \in 1..MaxSyncs : SyncSet(i)
  \/ \E i \in 1..MaxSyncs : SyncClear(i)
  \/ \E i \in 1..MaxSyncs : SyncCreate(i)
  \/ OnChanged

SpecIcon == InitIcon /\ [][NextIcon]_vars

\* The three writers of the settings key: the icon page, the popup (its saves
\* made at settled moments before the page's handler runs) and loadSettings
NextWriters ==
  \/ PageLoad
  \/ PageUpload
  \/ UploadDecoded
  \/ PagePick
  \/ PickRendered
  \/ PageReset
  \/ SaveGet
  \/ SaveSet
  \/ SaveSend
  \/ SaveAnswered
  \/ \E i \in 1..MaxSyncs : SyncGet(i)
  \/ \E i \in 1..MaxSyncs : SyncSet(i)
  \/ \E i \in 1..MaxSyncs : SyncClear(i)
  \/ \E i \in 1..MaxSyncs : SyncCreate(i)
  \/ OnChanged
  \/ \E next \in UiInputs :
       /\ page.uses = 0
       /\ pendingChanges = 0
       /\ \A i \in 1..MaxSyncs : ~SyncInFlight(i)
       /\ PopupSave(next)

SpecWriters == InitIcon /\ [][NextWriters]_vars

NoSyncInFlight == \A i \in 1..MaxSyncs : ~SyncInFlight(i)
NoShowInFlight == \A i \in 1..MaxShows : ~ShowInFlight(i)

\* Nothing is in flight and no storage-change event waits
Quiescent == NoSyncInFlight /\ NoShowInFlight /\ pendingChanges = 0

\* The scheduler state of section 3 of the specification
SchedulerState ==
  IF ~alarm.armed /\ timeouts = {} THEN [state |-> "Disabled"]
  ELSE IF alarm.armed /\ timeouts = {}
    THEN [state |-> "CoarseArmed", periodInMinutes |-> alarm.periodInMinutes]
  ELSE IF ~alarm.armed /\ Cardinality(timeouts) = 1
          /\ \A t \in timeouts : t.h = subMinuteTimer
    THEN [state |-> "FineArmed",
          periodMs |-> (CHOOSE t \in timeouts : TRUE).intervalMs]
  ELSE [state |-> "Other"]

\* The scheduler state the specification gives to a settings record
ExpectedState(settings) ==
  IF ~settings.enabled.b THEN [state |-> "Disabled"]
  ELSE IF settings.intervalMinutes.n < OneMinute
    THEN [state |-> "FineArmed",
          periodMs |-> (settings.intervalMinutes.n * MsPerMinute) \div FP]
  ELSE [state |-> "CoarseArmed",
        periodInMinutes |-> settings.intervalMinutes.n]

Count(log, what) == Cardinality({k \in 1..Len(log) : log[k] = what})
Before(log, what, k) == \E j \in 1..(k - 1) : log[j] = what

\* C1: once every in-flight invocation of syncAlarm has finished and no
\* settings change waits to start another one, the coarse alarm and the fine
\* timer are not both armed (at most one reminder stream).
C1_AtMostOneStream ==
  (NoSyncInFlight /\ pendingChanges = 0) => ~(alarm.armed /\ timeouts # {})

\* C2: once nothing is in flight and no settings change waits to be handled,
\* the armed schedule is the one the persisted settings call for.
C2_ConvergesToPersisted ==
  Quiescent => SchedulerState = ExpectedState(normalizeSettings(stored))

\* What an invocation of syncAlarm has done so far is in order: each arm comes
\* after the clear of the coarse alarm and the clear of the fine timer, and
\* there is at most one arm
OrderedLog(log) ==
  /\ Count(log, "armFine") + Count(log, "armCoarse") <= 1
  /\ \A k \in 1..Len(log) :
       log[k] \in {"armFine", "armCoarse"} =>
         Before(log, "clearCoarse", k) /\ Before(log, "clearFine", k)

\* C3: within one invocation of syncAlarm both clears come before any arm,
\* both happen whatever the settings are, and at most one timer kind is armed;
\* when the invocation returns from its clearing step the alarm is gone and
\* no timeout is pending except the one it armed.
C3_DisarmsBeforeArming ==
  /\ \A i \in 1..MaxSyncs : OrderedLog(syncs[i].log)
  /\ finished.kind = "sync" =>
       /\ OrderedLog(finished.log)
       /\ Count(finished.log, "clearCoarse") = 1
       /\ Count(finished.log, "clearFine") = 1
       /\ Count(finished.log, "armCoarse") = 0 =>
            /\ ~alarm.armed
            /\ Cardinality(timeouts) = Count(finished.log, "armFine")

C3_Witness ==
  /\ finished.kind = "sync"
  /\ finished.log = <<"clearCoarse", "clearFine", "armFine">>
  /\ Cardinality(timeouts) = 1

\* C4: an invocation of syncAlarm that ran from its call to its return with no
\* step of anything else in between leaves the scheduler in the state its
\* loaded settings call for: Disabled, FineArmed or CoarseArmed.
C4_SoloResyncEndsInExpectedState ==
  (finished.kind = "sync" /\ finished.solo) =>
    SchedulerState = ExpectedState(finished.settings)

C4_Witness ==
  /\ finished.kind = "sync"
  /\ finished.solo
  /\ SchedulerState.state = "FineArmed"
  /\ finished.settings.intervalMinutes.n < OneMinute

\* C5: core operations never interleave: while one invocation of syncAlarm or
\* showNotification is suspended at an await, no other one is started.
C5_NeverInterleaved == InFlight <= 1

\* C6: while the scheduler is FineArmed and no syncAlarm runs, no step ends
\* the fine timer: a tick re-arms the next timeout, one full interval ahead,
\* in the step that starts the notification work, and exactly one timeout is
\* pending after it, whatever the shows in flight do.
C6_FineTimerNeverDies ==
  [][(NoSyncInFlight /\ NoSyncInFlight' /\ SchedulerState.state = "FineArmed") =>
       /\ SchedulerState' = SchedulerState
       /\ timeouts' # timeouts =>
            /\ \A t \in timeouts' : t.due = now + t.intervalMs
            /\ \E i \in 1..MaxShows :
                 /\ shows[i].pc = "idle"
                 /\ shows'[i].pc = "perm"
                 /\ shows'[i].src = "tick"]_vars

\* A tick has fired while the show of the tick before it was still in flight
C6_Witness ==
  /\ NoSyncInFlight
  /\ SchedulerState.state = "FineArmed"
  /\ \A t \in timeouts : t.setAt = now /\ now > Quantum
  /\ \E i, j \in 1..MaxShows :
       /\ shows[i].src = "tick" /\ shows[i].pc = "perm"
       /\ shows[j].src = "tick" /\ shows[j].pc \notin {"idle", "perm"}

\* A show is started by the alarm, or by the timeout t
StartedBy(src) ==
  \E i \in 1..MaxShows :
    shows[i].pc = "idle" /\ shows'[i].pc = "perm" /\ shows'[i].src = src

\* C7: arming never fires a reminder at arm time: the alarm is created with
\* delay and period both intervalMinutes, the first tick is set
\* intervalMinutes * 60000 ms ahead, and a timer starts a show only when a
\* full interval has passed since it was set.
C7_NoReminderAtArmTime ==
  [][/\ \A i \in 1..MaxSyncs :
          (syncs[i].pc = "create" /\ syncs'[i].pc = "idle") =>
            /\ alarm'.armed
            /\ alarm'.periodInMinutes = syncs[i].settings.intervalMinutes.n
            /\ alarm'.scheduledTime =
                 now + (syncs[i].settings.intervalMinutes.n * MsPerMinute) \div FP
     /\ \A i \in 1..MaxSyncs :
          (syncs[i].pc = "clear" /\ syncs'[i].pc = "idle"
           /\ timeouts' # {}) =>
            \A t \in timeouts' :
              /\ t.h = subMinuteTimer'
              /\ t.due =
                   now + (syncs[i].settings.intervalMinutes.n * MsPerMinute) \div FP
     /\ StartedBy("alarm") =>
          now >= alarm.setAt + (alarm.periodInMinutes * MsPerMinute) \div FP
     /\ StartedBy("tick") =>
          \E t \in timeouts \ timeouts' : now >= t.setAt + t.intervalMs]_vars

\* The alarm has fired, one period after the syncAlarm that created it
C7_Witness ==
  /\ \E i \in 1..MaxShows : shows[i].pc = "perm" /\ shows[i].src = "alarm"
  /\ alarm.armed
  /\ alarm.setAt = now
  /\ now = (alarm.periodInMinutes * MsPerMinute) \div FP

\* C8: when the permission gate answers false, showNotification returns false
\* and has done nothing: no storage read or write, no notification, no
\* dismiss timeout; no invocation goes past the gate without the permission.
C8_DeniedShowHasNoEffect ==
  [][/\ (finished'.kind = "show" /\ ~finished'.allowed) =>
          /\ finished'.result = "false"
          /\ finished'.log = <<>>
          /\ UNCHANGED <<stored, pendingChanges, notifications, dismissals,
                         alarm, timeouts, subMinuteTimer>>
     /\ \A i \in 1..MaxShows :
          shows'[i].pc \notin {"idle", "perm"} => shows'[i].allowed]_vars

C8_Witness ==
  /\ finished.kind = "show"
  /\ ~finished.allowed
  /\ finished.result = "false"
  /\ finished.response = "ok:false"

\* What the invocations that return true have done
TrueLogs ==
  { <<"get", "set", "tryCustom", "created", "dismiss">>,
    <<"get", "set", "tryCustom", "rejected", "tryDefault", "created", "dismiss">>,
    <<"get", "set", "tryDefault", "created", "dismiss">> }

\* C9: showNotification returns true only if that call created exactly one
\* notification: the custom icon is tried first when one is persisted, the
\* bundled icon is tried once and only if no notification was created, and
\* no call creates two.
C9_TrueMeansOneCreated ==
  /\ \A i \in 1..MaxShows :
       /\ Count(shows[i].log, "created") = 0
       /\ Count(shows[i].log, "tryCustom") <= 1
       /\ Count(shows[i].log, "tryDefault") <= 1
       /\ shows[i].pc \in {"createCustom", "createDefault"} =>
            (Count(shows[i].log, "tryCustom") = 1
               <=> shows[i].settings.notificationIconDataUrl.s # <<>>)
  /\ (finished.kind = "show" /\ finished.result = "true") =>
       finished.log \in TrueLogs
  /\ finished.kind = "show" => Count(finished.log, "created") <= 1

C9_Witness ==
  /\ finished.kind = "show"
  /\ finished.result = "true"
  /\ finished.log =
       <<"get", "set", "tryCustom", "rejected", "tryDefault", "created", "dismiss">>

\* C10: showNotification never lets an exception escape: it returns true or
\* false, and a test-notification request is answered {ok: ...}.
C10_ShowNeverThrows ==
  finished.kind = "show" =>
    /\ finished.result \in {"true", "false"}
    /\ finished.response \in {"none", "ok:true", "ok:false"}

\* An invocation of showNotification ends in this step, having been at one of
\* its two notifications.create calls
Creating(i) == shows[i].pc \in {"createCustom", "createDefault"}

\* C11: every notification created by showNotification gets a clear of its
\* identifier scheduled notificationDisplaySeconds * 1000 ms after the
\* creation, whatever happens later: a notification on display always has a
\* pending clear, a pending clear goes away only by firing when due, and it
\* then removes the notification; an invocation that created nothing
\* schedules no clear.
C11_CreatedIsDismissed ==
  [][/\ \A id \in notifications' : \E d \in dismissals' : d.id = id
     /\ \A i \in 1..MaxShows :
          (Creating(i) /\ shows'[i].pc = "idle"
           /\ finished'.kind = "show" /\ finished'.result = "true") =>
            /\ shows[i].id \in notifications'
            /\ [id |-> shows[i].id,
                due |-> now + (shows[i].settings.notificationDisplaySeconds.n
                                 * MsPerSecond) \div FP] \in dismissals'
     /\ (finished'.kind = "show" /\ finished'.result # "true") =>
          /\ dismissals' = dismissals
          /\ notifications' = notifications
     /\ \A d \in dismissals \ dismissals' :
          d.due <= now /\ d.id \notin notifications']_vars

\* A reminder of the fine timer has just been created and its clear is due
\* one display time later
C11_Witness ==
  /\ finished.kind = "show"
  /\ finished.src = "tick"
  /\ finished.result = "true"
  /\ now > 0
  /\ \E id \in notifications : \E d \in dismissals :
       d.id = id /\ d.due > now /\ d.due <= MaxTime

\* C12: an invocation of showNotification never uses the identifier of
\* another invocation: two invocations that have computed their identifiers
\* hold different ones, and none is about to create a notification under an
\* identifier that is on display.
C12_IdentifiersDistinct ==
  /\ \A i, j \in 1..MaxShows :
       (i # j /\ Creating(i) /\ Creating(j)) => shows[i].id # shows[j].id
  /\ \A i \in 1..MaxShows : Creating(i) => shows[i].id \notin notifications

\* loadSettings of invocation i has normalized the stored value and has not
\* written it back yet: `stored` is its input, syncs[i].settings its output
Normalized(i) == syncs[i].pc = "set"

NoOuterSpace(s) == s = <<>> \/ (s[1] # " " /\ s[Len(s)] # " ")

\* C13: normalizing twice gives what normalizing once gives: the record that
\* normalizeSettings returned is returned unchanged when it is normalized
\* again, by the background's normalizer and by the popup's.
C13_NormalizeIdempotent ==
  /\ \A i \in 1..MaxSyncs :
       Normalized(i) =>
         normalizeSettings(syncs[i].settings) = syncs[i].settings
  /\ popupNormalizeSettings(popupNormalizeSettings(stored))
       = popupNormalizeSettings(stored)

\* C14: a finite numeric intervalMinutes is normalized to a multiple of 0.1 in
\* [0.1, 180]: above 180 it gives 180 (500 gives 180), below 0.1 it gives 0.1
\* (0.05 gives 0.1), and a syncAlarm that loaded 0.1 arms the fine timer with
\* a period of 6000 ms.
C14_IntervalClamped ==
  /\ \A i \in 1..MaxSyncs :
       (Normalized(i) /\ stored.intervalMinutes.t = "number") =>
         LET x == stored.intervalMinutes.n
             y == syncs[i].settings.intervalMinutes.n
         IN /\ syncs[i].settings.intervalMinutes.t = "number"
            /\ y >= FP \div 10 /\ y <= 180 * FP
            /\ y % (FP \div 10) = 0
            /\ x > 180 * FP => y = 180 * FP
            /\ x < FP \div 10 => y = FP \div 10
            /\ x = 500 * FP => y = 180 * FP
            /\ x = FP \div 20 => y = FP \div 10
  /\ (/\ finished.kind = "sync"
      /\ finished.settings.enabled.b
      /\ finished.settings.intervalMinutes.n = FP \div 10) =>
       /\ timeouts # {}
       /\ \A t \in timeouts : t.intervalMs = 6000 /\ t.due = now + 6000

\* The stored 0.05 has been normalized to 0.1
C14_Witness ==
  \E i \in 1..MaxSyncs :
    /\ Normalized(i)
    /\ stored.intervalMinutes = Num(FP \div 20)
    /\ syncs[i].settings.intervalMinutes = Num(FP \div 10)

\* C15: a finite numeric notificationDisplaySeconds is normalized to a whole
\* number of seconds in [1, 300].
C15_DisplaySecondsClamped ==
  \A i \in 1..MaxSyncs :
    (Normalized(i) /\ stored.notificationDisplaySeconds.t = "number") =>
      LET y == syncs[i].settings.notificationDisplaySeconds
      IN /\ y.t = "number"
         /\ y.n >= 1 * FP /\ y.n <= 300 * FP
         /\ y.n % FP = 0

\* A stored 1.25 s has been normalized to 1 s
C15_Witness ==
  \E i \in 1..MaxSyncs :
    /\ Normalized(i)
    /\ stored.notificationDisplaySeconds = Num(FP + FP \div 4)
    /\ syncs[i].settings.notificationDisplaySeconds = Num(FP)

\* C16: a field that is absent or of the wrong type is normalized to its
\* default: 45 for an intervalMinutes that is not a number, 30 for a
\* notificationDisplaySeconds that is not a number, true for an enabled that
\* is not a boolean, '' for a title, message or icon that is not a string.
C16_WrongTypeGivesDefault ==
  \A i \in 1..MaxSyncs :
    Normalized(i) =>
      LET out == syncs[i].settings
      IN /\ stored.intervalMinutes.t # "number" =>
              out.intervalMinutes = Num(45 * FP)
         /\ stored.notificationDisplaySeconds.t # "number" =>
              out.notificationDisplaySeconds = Num(30 * FP)
         /\ stored.enabled.t # "boolean" => out.enabled = Bool(TRUE)
         /\ stored.notificationTitle.t # "string" =>
              out.notificationTitle = Str(<<>>)
         /\ stored.notificationMessage.t # "string" =>
              out.notificationMessage = Str(<<>>)
         /\ stored.notificationIconDataUrl.t # "string" =>
              out.notificationIconDataUrl = Str(<<>>)

\* C17: a string title is normalized to at most 80 characters with no
\* whitespace at either end, a string message to at most 200.
C17_TextsTrimmedAndCapped ==
  \A i \in 1..MaxSyncs :
    Normalized(i) =>
      /\ stored.notificationTitle.t = "string" =>
           /\ Len(syncs[i].settings.notificationTitle.s) <= 80
           /\ NoOuterSpace(syncs[i].settings.notificationTitle.s)
      /\ stored.notificationMessage.t = "string" =>
           /\ Len(syncs[i].settings.notificationMessage.s) <= 200
           /\ NoOuterSpace(syncs[i].settings.notificationMessage.s)

\* The input begins with 'data:image/' and has at most 2,000,000 characters
WellFormedIcon(v) ==
  /\ v.t = "string"
  /\ v.s # <<>>
  /\ v.s[1] = "data:image/"
  /\ Length(v.s) <= 2000000

\* C18 as stated: an icon input that does not begin with 'data:image/', is
\* over 2,000,000 characters or is not a string is normalized to ''.
C18_IconAcceptedAsGiven ==
  \A i \in 1..MaxSyncs :
    (Normalized(i) /\ ~WellFormedIcon(stored.notificationIconDataUrl)) =>
      syncs[i].settings.notificationIconDataUrl = Str(<<>>)

\* s without a spaces at its start and b at its end
Core(s, a, b) == SubSeq(s, a + 1, Len(s) - b)

\* core is s without the whitespace at its two ends
IsCoreOf(core, s) ==
  /\ NoOuterSpace(core)
  /\ \E a, b \in 0..Len(s) :
       /\ a + b <= Len(s)
       /\ core = Core(s, a, b)
       /\ \A k \in (1..a) \cup ((Len(s) - b + 1)..Len(s)) : s[k] = " "

\* C18, amended: the normalized icon is the input without the whitespace at
\* its two ends if that begins with 'data:image/' and has at most 2,000,000
\* characters; every other input (other prefix, over the cap once trimmed,
\* not a string) gives ''.
C18_IconAcceptedTrimmed ==
  \A i \in 1..MaxSyncs :
    Normalized(i) =>
      LET in == stored.notificationIconDataUrl
          out == syncs[i].settings.notificationIconDataUrl
      IN /\ out.t = "string"
         /\ in.t # "string" => out.s = <<>>
         /\ out.s # <<>> =>
              /\ in.t = "string"
              /\ IsCoreOf(out.s, in.s)
              /\ WellFormedIcon(out)
         /\ (in.t = "string" /\ out.s = <<>>) =>
              \A a, b \in 0..Len(in.s) :
                (a + b <= Len(in.s) /\ IsCoreOf(Core(in.s, a, b), in.s)) =>
                  ~WellFormedIcon(Str(Core(in.s, a, b)))

\* An icon with whitespace around it has been accepted without it
C18_Witness ==
  \E i \in 1..MaxSyncs :
    /\ Normalized(i)
    /\ stored.notificationIconDataUrl = Str(<<" ", "data:image/", "a", " ">>)
    /\ syncs[i].settings.notificationIconDataUrl = Str(<<"data:image/", "a">>)

\* hasNotificationPermission has just returned to invocation i, or to the
\* invocation that ended in this step
Asked(show) == show.permission # NoQuery

\* C19: when permissions.contains completes, its answer is the result of
\* hasNotificationPermission: the permission level is consulted only when
\* contains is absent or throws, and there only 'granted' gives true.
C19_ContainsAnswerIsResult ==
  /\ \A i \in 1..MaxShows :
       Asked(shows[i]) =>
         /\ shows[i].permission.contains = "true" => shows[i].allowed
         /\ shows[i].permission.contains = "false" => ~shows[i].allowed
         /\ shows[i].permission.contains \in {"throws", "absent"} =>
              (shows[i].allowed <=> shows[i].permission.level = "granted")
  /\ (finished.kind = "show" /\ Asked(finished)) =>
       /\ finished.permission.contains = "true" => finished.allowed
       /\ finished.permission.contains = "false" => ~finished.allowed
       /\ finished.permission.contains \in {"throws", "absent"} =>
            (finished.allowed <=> finished.permission.level = "granted")

\* C20: hasNotificationPermission returns a boolean for every combination of
\* permissions.contains returning, throwing or being absent and
\* getPermissionLevel returning, throwing or being absent, and it returns
\* false whenever neither query reports the permission as granted.
C20_PermissionIsTotal ==
  /\ \A i \in 1..MaxShows :
       /\ shows[i].allowed \in BOOLEAN
       /\ (Asked(shows[i]) /\ shows[i].allowed) =>
            \/ shows[i].permission.contains = "true"
            \/ shows[i].permission.level = "granted"
       /\ shows[i].pc \notin {"idle", "perm"} => shows[i].allowed
  /\ finished.kind = "show" =>
       /\ finished.allowed \in BOOLEAN
       /\ (Asked(finished) /\ finished.permission.contains # "true"
           /\ finished.permission.level # "granted") =>
            ~finished.allowed /\ finished.result = "false"
  /\ \A contains \in ContainsOutcomes, level \in LevelOutcomes :
       hasNotificationPermission(contains, level) \in BOOLEAN

\* Both queries have thrown, and showNotification has returned false
C20_Witness ==
  /\ finished.kind = "show"
  /\ finished.permission = [contains |-> "throws", level |-> "throws"]
  /\ ~finished.allowed
  /\ finished.result = "false"

\* What a finished syncAlarm has done is complete: both clears, and the arm
\* its settings call for
CompleteLog(log, settings) ==
  log = <<"clearCoarse", "clearFine">> \o
          (IF ~settings.enabled.b THEN <<>>
           ELSE IF settings.intervalMinutes.n < OneMinute THEN <<"armFine">>
           ELSE <<"armCoarse">>)

\* C21 as stated: when {ok: true} answers a sync-reminder request, the
\* syncAlarm it started has completed its clears and its arm, and the value
\* under the settings key is a normalized one.
C21_ResponseFindsSettingsNormalized ==
  (finished.kind = "sync" /\ finished.response = "ok:true") =>
    /\ CompleteLog(finished.log, finished.settings)
    /\ normalizeSettings(stored) = stored

\* C21, amended: {ok: true} answers a sync-reminder request in the step in
\* which the syncAlarm it started returns: that invocation has gone through
\* its storage write, which stored the normalized record it loaded, and
\* through its clears and its arm, in that order; the response is not sent at
\* any earlier step.
C21_ResponseAfterResync ==
  [][/\ (finished'.kind = "sync" /\ finished'.response = "ok:true") =>
          /\ CompleteLog(finished'.log, finished'.settings)
          /\ normalizeSettings(finished'.settings) = finished'.settings
          /\ \E i \in 1..MaxSyncs :
               /\ syncs[i].respond
               /\ syncs[i].pc \in {"clear", "create"}
               /\ syncs'[i].pc = "idle"
               /\ syncs[i].settings = finished'.settings
               /\ syncs[i].pc = "create" => alarm'.armed
     /\ \A i \in 1..MaxSyncs :
          /\ (syncs'[i].pc = "clear" /\ syncs[i].pc # "clear") =>
               /\ syncs[i].pc = "set"
               /\ stored' = syncs[i].settings
               /\ normalizeSettings(stored') = stored'
          /\ (syncs'[i].pc = "create" /\ syncs[i].pc # "create") =>
               syncs[i].pc = "clear"]_vars

\* A sync-reminder request has been answered after its syncAlarm created the
\* alarm
C21_Witness ==
  /\ finished.kind = "sync"
  /\ finished.response = "ok:true"
  /\ finished.log = <<"clearCoarse", "clearFine", "armCoarse">>
  /\ alarm.armed
  /\ stored = finished.settings

\* Invocation i of showNotification, started by a test-notification request,
\* takes a step
TestShowSteps(i) == shows[i].src = "test" /\ shows'[i] # shows[i]

\* C22: handling a test-notification request answers {ok: d}, d being the
\* boolean showNotification returned, and bypasses the timers: no step of it
\* changes the alarm or the fine timer, and none raises a change of the
\* settings key, on which the storage listener would run syncAlarm and clear
\* and re-arm them, whatever value is stored.
C22_TestNotificationBypassesTimers ==
  [][/\ \A i \in 1..MaxShows :
          TestShowSteps(i) =>
            /\ UNCHANGED <<alarm, timeouts, subMinuteTimer>>
            /\ pendingChanges' = pendingChanges
     /\ (finished'.kind = "show" /\ finished'.src = "test") =>
          \/ finished'.result = "true" /\ finished'.response = "ok:true"
          \/ finished'.result = "false" /\ finished'.response = "ok:false"]_vars

\* A step of the body of syncAlarm past loadSettings: the disarm step or the
\* arm step of some invocation
ResyncSteps ==
  \E i \in 1..MaxSyncs :
    /\ syncs[i].pc \in {"clear", "create"}
    /\ syncs'[i].pc # syncs[i].pc

\* The fine timer's tick: a due timeout is consumed and re-armed by its own
\* interval, nothing else is cleared, and a show is started
TickSteps ==
  \E t \in timeouts :
    /\ t.due <= now
    /\ \E r \in timeouts' \ timeouts :
         /\ timeouts' = (timeouts \ {t}) \cup {r}
         /\ r.intervalMs = t.intervalMs
         /\ subMinuteTimer' = r.h
    /\ alarm' = alarm
    /\ \E i \in 1..MaxShows : shows[i].pc = "idle" /\ shows'[i].src = "tick"

\* The browser fires the periodic alarm and schedules its next period itself
AlarmFires ==
  /\ alarm.armed /\ alarm.scheduledTime <= now
  /\ alarm' = [alarm EXCEPT !.scheduledTime = now + MinutesToMs(alarm.periodInMinutes),
                            !.setAt = now]
  /\ UNCHANGED <<timeouts, subMinuteTimer>>

\* C23: the coarse alarm and the fine timer are armed and cleared only by the
\* body of syncAlarm; the one arm outside it is the tick's re-arm of the fine
\* timer.  No step of showNotification (its permission gate, its loadSettings,
\* its creates), no loadSettings step of syncAlarm, no auto-dismiss and no
\* writer changes the alarm, the pending timeouts or the timer handle.
C23_TimersChangedOnlyByResync ==
  [][/\ (alarm' # alarm \/ timeouts' # timeouts \/ subMinuteTimer' # subMinuteTimer)
          => (ResyncSteps \/ TickSteps \/ AlarmFires)
     /\ \A i \in 1..MaxShows :
          (shows[i].pc # "idle" /\ shows'[i] # shows[i]) =>
            UNCHANGED <<alarm, timeouts, subMinuteTimer>>
     /\ \A i \in 1..MaxSyncs :
          (syncs[i].pc \in {"get", "set"} /\ syncs'[i].pc # syncs[i].pc) =>
            UNCHANGED <<alarm, timeouts, subMinuteTimer>>]_vars

\* A show started by a tick has passed the gate, loaded the settings and
\* created its notification while the timeout the tick re-armed is still the
\* one pending
C23_Witness ==
  /\ NoSyncInFlight
  /\ finished.kind = "show" /\ finished.src = "tick" /\ finished.result = "true"
  /\ \E t \in timeouts :
       /\ timeouts = {t}
       /\ t.h = subMinuteTimer
       /\ t.setAt > 0
       /\ t.due = t.setAt + t.intervalMs

\* Invocation i of syncAlarm / of showNotification leaves program position pc
SyncLeaves(i, pc) == syncs[i].pc = pc /\ syncs'[i].pc # pc
ShowLeaves(i, pc) == shows[i].pc = pc /\ shows'[i].pc # pc

\* C24 (as stated): when a syncAlarm returns, and when a showNotification that
\* passed the permission gate returns, the value under the settings key is the
\* normalized record the operation loaded and used.
C24_StoredIsLoadedRecordAtEnd ==
  [][/\ finished'.kind = "sync" => stored' = finished'.settings
     /\ \A i \in 1..MaxShows :
          (shows[i].pc \in {"createCustom", "createDefault"} /\ shows'[i].pc = "idle")
            => stored' = shows[i].settings]_vars

\* C24 (amended): loadSettings normalizes the value it reads and persists
\* exactly that record, in syncAlarm and in a showNotification past the gate:
\* the step that completes its write leaves normalizeSettings(value read)
\* under the settings key, and the rest of the operation works from that same
\* record (the alarm's period, the fine timer's interval, the dismissal delay
\* and the record reported at the end), though not necessarily from what is
\* stored by then.
C24_LoadPersistsWhatItNormalized ==
  [][/\ \A i \in 1..MaxSyncs :
          /\ SyncLeaves(i, "get") =>
               /\ syncs'[i].settings = normalizeSettings(stored)
               /\ stored' = stored
          /\ SyncLeaves(i, "set") =>
               /\ stored' = syncs[i].settings
               /\ syncs'[i].settings = syncs[i].settings
          /\ SyncLeaves(i, "clear") =>
               /\ stored' = stored
               /\ syncs'[i].pc = "create" => syncs'[i].settings = syncs[i].settings
               /\ syncs'[i].pc = "idle" => finished'.settings = syncs[i].settings
               /\ subMinuteTimer' # 0 =>
                    \E t \in timeouts' :
                      t.h = subMinuteTimer' /\ t.intervalMs = IntervalMs(syncs[i].settings)
          /\ SyncLeaves(i, "create") =>
               /\ stored' = stored
               /\ finished'.settings = syncs[i].settings
               /\ alarm'.periodInMinutes = syncs[i].settings.intervalMinutes.n
     /\ \A i \in 1..MaxShows :
          /\ ShowLeaves(i, "get") =>
               /\ shows'[i].settings = normalizeSettings(stored)
               /\ stored' = stored
          /\ ShowLeaves(i, "set") =>
               /\ stored' = shows[i].settings
               /\ shows'[i].settings = shows[i].settings
               /\ shows'[i].pc = "createCustom" <=>
                    shows[i].settings.notificationIconDataUrl.s # <<>>
          /\ (ShowLeaves(i, "createCustom") \/ ShowLeaves(i, "createDefault")) =>
               /\ stored' = stored
               /\ shows'[i].pc # "idle" => shows'[i].settings = shows[i].settings
               /\ \A d \in dismissals' \ dismissals :
                    d.due = now + DisplayMs(shows[i].settings)]_vars

\* A show has just returned true after healing a value left by another writer:
\* what is stored is the normalized form of that value and not the value itself
C24_Witness ==
  /\ finished.kind = "show" /\ finished.result = "true"
  /\ Count(finished.log, "set") = 1
  /\ stored \notin ExternalInputs
  /\ \E x \in ExternalInputs : stored = normalizeSettings(x)
  /\ NoSyncInFlight /\ pendingChanges = 1

\* What the popup's save() can have stored
UiValues == {popupNormalizeSettings(next) : next \in UiInputs}

\* C25: a value the UI wrote between the read and the write of a loadSettings
\* in flight is not overwritten by the older record that loadSettings holds:
\* when the write of a loadSettings completes while the settings key holds a
\* value of the UI that the record was not normalized from, that value stays.
C25_UiWriteSurvivesLoad ==
  [][/\ \A i \in 1..MaxSyncs :
          (SyncLeaves(i, "set") /\ stored \in UiValues
             /\ normalizeSettings(stored) # syncs[i].settings) => stored' = stored
     /\ \A i \in 1..MaxShows :
          (ShowLeaves(i, "set") /\ stored \in UiValues
             /\ normalizeSettings(stored) # shows[i].settings) => stored' = stored]_vars

\* The background script under its lifecycle events, the sync-reminder request
\* and the storage listener while the clock runs, no timer coming due
NextInstall ==
  \/ \E i \in 1..MaxSyncs : SyncGet(i)
  \/ \E i \in 1..MaxSyncs : SyncSet(i)
  \/ \E i \in 1..MaxSyncs : SyncClear(i)
  \/ \E i \in 1..MaxSyncs : SyncCreate(i)
  \/ OnInstalled
  \/ OnStartup
  \/ OnChanged
  \/ OnMessageSync
  \/ Advance

SpecInstall == Init /\ [][NextInstall]_vars

\* C26: the install-timestamp key is written once: after its first write its
\* value never changes, whatever event is handled later.
C26_InstalledAtWrittenOnce ==
  [][installedAt # -1 => installedAt' = installedAt]_vars

\* The handler of the page leaves program position pc
PageLeaves(pc) == page.pc = pc /\ page'.pc # pc

\* A string within the icon cap
Fits(s) == Length(s) <= MAX_ICON_DATA_URL_LENGTH

\* What fileToSquareDataUrl has returned to onUpload in the step taken: the
\* string handed on to saveIcon, or the one reported when the handler ended
UploadResult ==
  IF finished'.kind = "page" THEN finished'.pipeline.value ELSE page'.dataUrl

\* C27: when the uploaded image is drawn, fileToSquareDataUrl returns the PNG
\* encoding if it is at most 2,000,000 characters long; otherwise the
\* quality-0.9 JPEG if that is at most 2,000,000 long; otherwise the
\* quality-0.75 JPEG whatever its length.  A later tier is never returned
\* when an earlier one fits.
C27_TiersInOrder ==
  [][(PageLeaves("decode") /\ page.canvas.state = "drawn") =>
       LET canvas == page.canvas
       IN /\ Fits(canvas.png) => UploadResult = canvas.png
          /\ (~Fits(canvas.png) /\ Fits(canvas.jpeg90)) =>
               UploadResult = canvas.jpeg90
          /\ (~Fits(canvas.png) /\ ~Fits(canvas.jpeg90)) =>
               UploadResult = canvas.jpeg75
          /\ UploadResult \in {canvas.png, canvas.jpeg90, canvas.jpeg75}]_vars

\* The quality-0.9 JPEG of an image whose PNG was over the cap has been
\* returned and handed to saveIcon
C27_Witness ==
  /\ page.handler = "upload" /\ page.pc = "saveGet"
  /\ ~Fits(page.canvas.png)
  /\ page.dataUrl = page.canvas.jpeg90
  /\ Length(page.dataUrl) = MAX_ICON_DATA_URL_LENGTH

\* C28: when the image fails to load, on the upload path and on the glyph
\* path, no fault escapes: the handler that started the pipeline gets no image
\* (an empty result, or a rejection it catches itself), ends normally, and the
\* settings key is not written.
C28_LoadFailureNeverEscapes ==
  [][((PageLeaves("decode") \/ PageLeaves("render"))
        /\ page.canvas.state = "loadFails") =>
       /\ finished'.kind = "page"
       /\ finished'.pipeline.value = <<>>
       /\ finished'.result = "ended"
       /\ stored' = stored]_vars

\* C29: the glyph path encodes once, as PNG: when the glyph is drawn,
\* iconComponentToPngDataUrl returns that PNG if it is at most 2,000,000
\* characters long, and saveIcon is called with it; otherwise it returns '',
\* the handler ends and the settings key is not written.
C29_GlyphSinglePngAttempt ==
  [][/\ (PageLeaves("render") /\ page.canvas.state = "drawn") =>
          /\ Fits(page.canvas.png) =>
               /\ page'.pc = "saveGet"
               /\ page'.dataUrl = page.canvas.png
          /\ ~Fits(page.canvas.png) =>
               /\ finished'.kind = "page"
               /\ finished'.pipeline = Returned(<<>>)
               /\ finished'.result = "ended"
               /\ page'.pc = "idle"
          /\ stored' = stored
     /\ (page.handler = "pick" /\ stored' # stored /\ PageLeaves("saveSet")) =>
          /\ Fits(page.canvas.png)
          /\ stored'.notificationIconDataUrl = Str(page.canvas.png)]_vars

\* A glyph whose PNG is over the cap has been refused: the handler has ended
\* with its message and what was stored is still the value the page opened on
C29_Witness ==
  /\ finished.kind = "page" /\ finished.handler = "pick"
  /\ finished.canvas.state = "drawn"
  /\ ~Fits(finished.canvas.png)
  /\ finished.pipeline = Returned(<<>>)
  /\ finished.message = "failedToGenerateBuiltinIcon"
  /\ page.pc = "idle"
  /\ stored.notificationIconDataUrl = Str(<<ImagePrefix, "a">>)

\* The field constraints of a settings record
FieldConstraints(v) ==
  /\ v.enabled.t = "boolean"
  /\ v.intervalMinutes.t = "number"
  /\ v.intervalMinutes.n >= MIN_INTERVAL_MINUTES
  /\ v.intervalMinutes.n <= MAX_INTERVAL_MINUTES
  /\ v.notificationTitle.t = "string"
  /\ Length(v.notificationTitle.s) <= MaxTitleLength
  /\ v.notificationMessage.t = "string"
  /\ Length(v.notificationMessage.s) <= MaxMessageLength
  /\ v.notificationDisplaySeconds.t = "number"
  /\ v.notificationDisplaySeconds.n % FP = 0
  /\ v.notificationDisplaySeconds.n >= MinDisplaySeconds
  /\ v.notificationDisplaySeconds.n <= MaxDisplaySeconds
  /\ v.notificationIconDataUrl.t = "string"
  /\ \/ v.notificationIconDataUrl.s = <<>>
     \/ /\ Head(v.notificationIconDataUrl.s) = ImagePrefix
        /\ Fits(v.notificationIconDataUrl.s)

\* C30: every value written under the settings key by loadSettings, by the
\* popup's save or by the icon page's saveIcon satisfies the field
\* constraints; an over-cap result of the quality-0.75 tier is not persisted:
\* the upload handler that got it ends without calling saveIcon.
C30_WritesSatisfyConstraints ==
  [][/\ stored' # stored => FieldConstraints(stored')
     /\ (PageLeaves("saveSet") \/ \E i \in 1..MaxSyncs : SyncLeaves(i, "set"))
          => FieldConstraints(stored')
     /\ (PageLeaves("decode") /\ page.canvas.state = "drawn"
           /\ ~Fits(page.canvas.png) /\ ~Fits(page.canvas.jpeg90)
           /\ ~Fits(page.canvas.jpeg75)) =>
          /\ page'.pc = "idle"
          /\ finished'.message = "iconTooLargeOrUnsupported"
          /\ stored' = stored]_vars

\* An upload whose three encodings are all over the cap has ended with the
\* too-large message after the popup had saved: the popup's record is still
\* what is stored
C30_Witness ==
  /\ finished.kind = "page" /\ finished.handler = "upload"
  /\ finished.pipeline.value = finished.canvas.jpeg75
  /\ ~Fits(finished.pipeline.value)
  /\ finished.message = "iconTooLargeOrUnsupported"
  /\ stored \in UiValues
  /\ FieldConstraints(stored)

\* ------------------------------------------------- the storage listener
\* The keys of storage.local this extension writes, and the storage areas
STORAGE_KEY == "sitless-settings"
INSTALLED_AT_KEY == "sitless-installed-at"
UI_STATE_KEY == "sitless-popup-ui-state"

\* The change events the browser can dispatch: an area and the keys changed
StorageEvents ==
  LET StorageKeys == {STORAGE_KEY, INSTALLED_AT_KEY, UI_STATE_KEY}
      StorageAreas == {"local", "sync", "session"}
  IN {[area |-> area, keys |-> keys] :
        area \in StorageAreas, keys \in (SUBSET StorageKeys) \ {{}}}

\* A listener that resyncs on every change of the local area
ListensToEveryKey(area, keys) == area = "local"

\* if (area === 'local' && changes[STORAGE_KEY])
ListensTo(area, keys) == area = "local" /\ STORAGE_KEY \in keys

\* storage.onChanged dispatches an event: one of the queued changes of the
\* settings key when the event is of the local area and names that key, a
\* change made by anyone otherwise
OnStorageChanged(event) ==
  /\ (event.area = "local" /\ STORAGE_KEY \in event.keys) => pendingChanges > 0
  /\ pendingChanges' =
       IF event.area = "local" /\ STORAGE_KEY \in event.keys
         THEN pendingChanges - 1 ELSE pendingChanges
  /\ IF ListensTo(event.area, event.keys)
       THEN /\ FreeSyncs # {}
            /\ syncs' = CallSyncAlarm(syncs, Lowest(FreeSyncs), FALSE)
       ELSE syncs' = Disturb(syncs, 0)
  /\ finished' = [kind |-> "onChanged", area |-> event.area,
                  keys |-> event.keys]
  /\ UNCHANGED <<stored, installedAt, alarm, subMinuteTimer, timeouts, shows,
                 notifications, dismissals, now, page>>

\* The background script under the popup's saves and every storage event
NextStorage ==
  \/ \E i \in 1..MaxSyncs : SyncGet(i)
  \/ \E i \in 1..MaxSyncs : SyncSet(i)
  \/ \E i \in 1..MaxSyncs : SyncClear(i)
  \/ \E i \in 1..MaxSyncs : SyncCreate(i)
  \/ \E event \in StorageEvents : OnStorageChanged(event)
  \/ \E next \in UiInputs : PopupSave(next)

SpecStorage == Init /\ [][NextStorage]_vars

\* Some invocation of syncAlarm is started in the step
ResyncStarts ==
  \E i \in 1..MaxSyncs : syncs[i].pc = "idle" /\ syncs'[i].pc = "get"

\* C31: a storage-change event starts a resync if and only if its area is
\* 'local' and its change set contains the settings key; an event of another
\* area, or one that names only the install-timestamp key or the UI-state key,
\* starts none; and no event changes the alarm or the fine timer in its own
\* step.
C31_OnlySettingsChangesResync ==
  [][finished'.kind = "onChanged" =>
       /\ ResyncStarts <=>
            (finished'.area = "local" /\ STORAGE_KEY \in finished'.keys)
       /\ ~ResyncStarts =>
            \A i \in 1..MaxSyncs : syncs'[i].pc = syncs[i].pc
       /\ UNCHANGED <<alarm, timeouts, subMinuteTimer, stored>>]_vars

\* A write of the install-timestamp key and the UI-state key in the local
\* area has been dispatched while the alarm was armed and nothing was in
\* flight: nothing is in flight after it
C31_Witness ==
  /\ finished.kind = "onChanged"
  /\ finished.area = "local"
  /\ finished.keys = {INSTALLED_AT_KEY, UI_STATE_KEY}
  /\ alarm.armed
  /\ \A i \in 1..MaxSyncs : ~SyncInFlight(i)

\* C32: the chain storage-change -> syncAlarm -> loadSettings write ->
\* storage-change stops after one re-normalizing write: a write of
\* loadSettings that changes the stored value leaves a value that loadSettings
\* writes back unchanged from then on, so no further change event follows.
C32_OneRenormalizingWrite ==
  [][\A i \in 1..MaxSyncs :
       (SyncLeaves(i, "set") /\ stored' # stored) =>
         normalizeSettings(stored') = stored']_vars

\* C33: at every moment at most one timeout of the fine timer is pending and
\* subMinuteTimer is its handle; when none is pending subMinuteTimer is
\* undefined.  No tick that runs while a syncAlarm is suspended at an await,
\* and no pair of overlapping syncAlarm invocations, leaves a pending timeout
\* that subMinuteTimer does not refer to.
C33_OneReferencedTimeout ==
  /\ Cardinality(timeouts) <= 1
  /\ \A t \in timeouts : t.h = subMinuteTimer /\ t.h # 0
  /\ timeouts = {} => subMinuteTimer = 0

\* A tick has just run and re-armed the timer while a syncAlarm was
\* suspended at the await before its disarm step
C33_Witness ==
  /\ \E t \in timeouts : t.h = subMinuteTimer /\ t.setAt = now /\ now > 0
  /\ \E i \in 1..MaxShows : shows[i].src = "tick" /\ shows[i].pc = "perm"
  /\ \E i \in 1..MaxSyncs : syncs[i].pc = "clear"

\* A show is started by the alarm or by a tick of the fine timer in the step
TimerShowStarts ==
  \E i \in 1..MaxShows :
    /\ shows[i].pc = "idle"
    /\ shows'[i].pc = "perm"
    /\ shows'[i].src \in {"alarm", "tick"}

\* C34: no reminder comes from a cancelled schedule: while the persisted
\* settings are disabled, every syncAlarm has finished (the last one to load
\* loaded enabled = false) and no settings change waits to start another, no
\* show is started by the alarm or by the fine timer.
C34_NoReminderWhenDisabled ==
  [][(NoSyncInFlight /\ pendingChanges = 0
        /\ ~normalizeSettings(stored).enabled.b) => ~TimerShowStarts]_vars

\* C35: every syncAlarm restarts the countdown, also when the settings did not
\* change: when an invocation completes, every timer that is armed was armed
\* in that very moment and is due one full interval later, so no reminder of
\* the alarm or of the fine timer comes less than a full interval after a
\* syncAlarm has completed.
C35_ResyncRestartsCountdown ==
  [][finished'.kind = "sync" =>
       /\ \A t \in timeouts' : t.setAt = now /\ t.due = now + t.intervalMs
       /\ alarm'.armed =>
            /\ alarm'.setAt = now
            /\ alarm'.scheduledTime = now + MinutesToMs(alarm'.periodInMinutes)]_vars

\* ------------------------------------------- the copies of normalizeSettings
\* entrypoints/background.ts: the defaults of that copy
backgroundTsDefaultSettings ==
  [enabled |-> Bool(TRUE),
   intervalMinutes |-> Num(45 * FP),
   notificationTitle |-> Str(<<>>),
   notificationMessage |-> Str(<<>>),
   notificationDisplaySeconds |-> Num(8 * FP)]

\* entrypoints/background.ts: normalizeSettings of that copy. The record it
\* returns has no icon field: reading the field gives undefined
backgroundTsNormalizeSettings(raw) ==
  LET interval == ToNumber(raw.intervalMinutes)
      displaySeconds == ToNumber(raw.notificationDisplaySeconds)
      safeInterval ==
        IF IsFinite(interval)
          THEN Num(Max(1 * FP, Min(180 * FP, Round(interval.n))))
          ELSE backgroundTsDefaultSettings.intervalMinutes
      safeDisplaySeconds ==
        IF IsFinite(displaySeconds)
          THEN Num(Max(1 * FP, Min(300 * FP, Round(displaySeconds.n))))
          ELSE backgroundTsDefaultSettings.notificationDisplaySeconds
      safeTitle ==
        IF raw.notificationTitle.t = "string"
          THEN Str(Slice(Trim(raw.notificationTitle.s), MaxTitleLength))
          ELSE backgroundTsDefaultSettings.notificationTitle
      safeMessage ==
        IF raw.notificationMessage.t = "string"
          THEN Str(Slice(Trim(raw.notificationMessage.s), MaxMessageLength))
          ELSE backgroundTsDefaultSettings.notificationMessage
  IN [enabled |->
        IF raw.enabled.t = "boolean" THEN raw.enabled
        ELSE backgroundTsDefaultSettings.enabled,
      intervalMinutes |-> safeInterval,
      notificationTitle |-> safeTitle,
      notificationMessage |-> safeMessage,
      notificationDisplaySeconds |-> safeDisplaySeconds,
      notificationIconDataUrl |-> Undefined]

\* The scripts that carry a copy of normalizeSettings
NormalizeCopies == {"background.ts", "background", "popup", "icon page"}

\* normalizeSettings as the named script computes it
NormalizeOf(copy, raw) ==
  CASE copy = "background.ts" -> backgroundTsNormalizeSettings(raw)
    [] copy = "background" -> normalizeSettings(raw)
    [] copy = "popup" -> popupNormalizeSettings(raw)
    [] copy = "icon page" -> iconNormalizeSettings(raw)

\* A script normalizes what is stored and persists the result (loadSettings
\* of a background script, save of the popup, saveIcon of the icon page)
ApplyNormalize(copy) ==
  /\ stored' = NormalizeOf(copy, stored)
  /\ finished' = [kind |-> "normalize", copy |-> copy, input |-> stored,
                  value |-> NormalizeOf(copy, stored)]
  /\ UNCHANGED <<installedAt, pendingChanges, alarm, subMinuteTimer, timeouts,
                 syncs, shows, notifications, dismissals, now, page>>

\* Any record a page's form or another writer can hand to a normalizer
InitNormalize ==
  /\ stored \in RawInputs \cup UiInputs
  /\ installedAt = -1
  /\ pendingChanges = 0
  /\ alarm = NoAlarm
  /\ subMinuteTimer = 0
  /\ timeouts = {}
  /\ syncs = [i \in 1..MaxSyncs |-> IdleSync]
  /\ shows = [i \in 1..MaxShows |-> IdleShow]
  /\ notifications = {}
  /\ dismissals = {}
  /\ now = 0
  /\ finished = Nobody
  /\ page = ClosedPage

NextNormalize == \E copy \in NormalizeCopies : ApplyNormalize(copy)

SpecNormalize == InitNormalize /\ [][NextNormalize]_vars

\* The copies of the background scripts, and those of the pages
BackgroundCopies == {"background.ts", "background"}
UiCopies == {"popup", "icon page"}

\* C36: the copies of normalizeSettings compute the same function with the
\* same defaults (every copy gives the value the acting copy gave), and what
\* a UI page has persisted is left unchanged by a background script's
\* normalize: a sub-minute interval and a custom icon survive it.
C36_NormalizeCopiesAgree ==
  [][finished'.kind = "normalize" =>
       /\ \A copy \in NormalizeCopies :
            NormalizeOf(copy, finished'.input) = finished'.value
       /\ (/\ finished.kind = "normalize"
           /\ finished.copy \in UiCopies
           /\ finished'.copy \in BackgroundCopies) => stored' = stored]_vars

\* ------------------------------------------------ the crop of an upload
\* The largest image side the inputs take
MaxDim == 9

\* An offset that is not halved
sxUncentered(image) == image.width - Min(image.width, image.height)

\* const sourceSize = Math.min(image.width, image.height)
sourceSize(image) == Min(image.width, image.height)

\* const sx = Math.max(0, Math.floor((image.width - sourceSize) / 2))
sx(image) == Max(0, (image.width - sourceSize(image)) \div 2)

\* const sy = Math.max(0, Math.floor((image.height - sourceSize) / 2))
sy(image) == Max(0, (image.height - sourceSize(image)) \div 2)

\* img.onload: the uploaded file is decoded to an image of some size
ImageLoaded(image) ==
  /\ finished.kind = "none"
  /\ finished' = [kind |-> "image", width |-> image.width,
                  height |-> image.height]
  /\ UNCHANGED <<stored, installedAt, pendingChanges, alarm, subMinuteTimer,
                 timeouts, syncs, shows, notifications, dismissals, now, page>>

\* ctx.drawImage(image, sx, sy, sourceSize, sourceSize, 0, 0, size, size)
DrawImage ==
  /\ finished.kind = "image"
  /\ finished' = [kind |-> "crop", width |-> finished.width,
                  height |-> finished.height,
                  sourceSize |-> sourceSize(finished),
                  sx |-> sx(finished), sy |-> sy(finished)]
  /\ UNCHANGED <<stored, installedAt, pendingChanges, alarm, subMinuteTimer,
                 timeouts, syncs, shows, notifications, dismissals, now, page>>

\* A decoded image can report any size
NextCrop ==
  \/ \E w \in 0..MaxDim, h \in 0..MaxDim :
       ImageLoaded([width |-> w, height |-> h])
  \/ DrawImage

\* The icon page is open and no file has been picked yet
InitCrop ==
  /\ stored = defaultSettings
  /\ installedAt = -1
  /\ pendingChanges = 0
  /\ alarm = NoAlarm
  /\ subMinuteTimer = 0
  /\ timeouts = {}
  /\ syncs = [i \in 1..MaxSyncs |-> IdleSync]
  /\ shows = [i \in 1..MaxShows |-> IdleShow]
  /\ notifications = {}
  /\ dismissals = {}
  /\ now = 0
  /\ finished = Nobody
  /\ page = MountedPage

SpecCrop == InitCrop /\ [][NextCrop]_vars

\* C37: for an image of width w >= 1 and height h >= 1 the uploaded-image
\* path draws the centered square: its side is min(w, h), its offsets are
\* floor((w - side)/2) and floor((h - side)/2), they are not negative, and
\* offset + side stays within the image on each axis.
C37_CenteredSquareCrop ==
  (finished.kind = "crop" /\ finished.width >= 1 /\ finished.height >= 1) =>
    /\ finished.sourceSize = Min(finished.width, finished.height)
    /\ finished.sx = (finished.width - finished.sourceSize) \div 2
    /\ finished.sy = (finished.height - finished.sourceSize) \div 2
    /\ finished.sx >= 0 /\ finished.sy >= 0
    /\ finished.sx + finished.sourceSize <= finished.width
    /\ finished.sy + finished.sourceSize <= finished.height

\* A landscape image whose surplus width is odd has been cropped
C37_Witness ==
  /\ finished.kind = "crop"
  /\ finished.width = 7 /\ finished.height = 2
  /\ finished.sourceSize = 2 /\ finished.sx = 2 /\ finished.sy = 0

\* ------------------------------------------------ the contrast of a glyph
\* The hexadecimal digits, in the two cases parseInt(_, 16) reads
HexDigits ==
  [lower |-> <<"0", "1", "2", "3", "4", "5", "6", "7", "8", "9",
               "a", "b", "c", "d", "e", "f">>,
   upper |-> <<"0", "1", "2", "3", "4", "5", "6", "7", "8", "9",
               "A", "B", "C", "D", "E", "F">>]

\* [0-9a-fA-F]
IsHexDigit(c) ==
  \E k \in 1..16 : HexDigits.lower[k] = c \/ HexDigits.upper[k] = c
HexDigitValue(c) ==
  (CHOOSE k \in 1..16 : HexDigits.lower[k] = c \/ HexDigits.upper[k] = c) - 1

\* Number.parseInt(s, 16) of two hexadecimal digits
ParseInt16(s) == 16 * HexDigitValue(s[1]) + HexDigitValue(s[2])

\* hex.replace('#', ''): the first '#' is removed, later ones stay
ReplaceHash(hex) ==
  IF \E k \in 1..Len(hex) : hex[k] = "#"
    THEN LET first == CHOOSE k \in 1..Len(hex) :
                        /\ hex[k] = "#"
                        /\ \A j \in 1..(k - 1) : hex[j] # "#"
         IN SubSeq(hex, 1, first - 1) \o SubSeq(hex, first + 1, Len(hex))
    ELSE hex

\* hexToRgb: null, or the three bytes
hexToRgb(hex) ==
  LET cleaned == Trim(ReplaceHash(hex))
      \* /^[0-9a-fA-F]{6}$/.test(cleaned)
      test == Len(cleaned) = 6 /\ \A k \in 1..6 : IsHexDigit(cleaned[k])
  IN IF ~test THEN Null
     ELSE [t |-> "rgb",
           r |-> ParseInt16(SubSeq(cleaned, 1, 2)),
           g |-> ParseInt16(SubSeq(cleaned, 3, 4)),
           b |-> ParseInt16(SubSeq(cleaned, 5, 6))]

\* (0.299 * r + 0.587 * g + 0.114 * b) / 255, in units of 1/255000. The
\* weighted sum is a whole number of these units; the double the script
\* computes differs from it by less than one unit, and for the bytes whose
\* sum is 153000 the double is 0.6 or 0.5999999999999999, never above 0.6
luminance(rgb) == 299 * rgb.r + 587 * rgb.g + 114 * rgb.b

\* A threshold that counts 0.6 itself as bright
luminanceReaches(rgb) == luminance(rgb) >= 153000

\* luminance > 0.6
luminanceExceeds(rgb) == luminance(rgb) > 153000

getContrastColor(hex) ==
  LET rgb == hexToRgb(hex)
  IN IF rgb = Null THEN "#111827"
     ELSE IF luminanceExceeds(rgb) THEN "#111827" ELSE "#ffffff"

\* The background colors handed to getContrastColor: bytes on both sides of
\* the threshold, with and without '#', padded, and texts that are no color
ColorTexts ==
  LET HexPairs ==
        { <<"0", "0">>, <<"9", "9">>, <<"9", "a">>, <<"9", "A">>,
          <<"f", "f">>, <<"d", "e">>, <<"c", "7">> }
      Leads == { <<>>, <<"#">>, <<" ", "#">>, <<"#", "#">> }
      Trails == { <<>>, <<" ">>, <<"g">> }
  IN
  { lead \o x \o y \o z \o trail :
      lead \in Leads, x \in HexPairs, y \in HexPairs, z \in HexPairs,
      trail \in Trails }
  \cup { x \o <<"#">> \o y \o z : x \in HexPairs, y \in HexPairs, z \in HexPairs }
  \cup { lead \o x \o y : lead \in Leads, x \in HexPairs, y \in HexPairs }
  \cup { lead \o x \o <<" ">> \o y \o z :
           lead \in Leads, x \in {<<"9", "9">>}, y \in HexPairs, z \in HexPairs }

\* The page renders a glyph over the chosen background color
ContrastChosen(hex) ==
  /\ finished.kind = "none"
  /\ finished' = [kind |-> "contrast", input |-> hex, rgb |-> hexToRgb(hex),
                  value |-> getContrastColor(hex)]
  /\ UNCHANGED <<stored, installedAt, pendingChanges, alarm, subMinuteTimer,
                 timeouts, syncs, shows, notifications, dismissals, now, page>>

NextContrast == \E hex \in ColorTexts : ContrastChosen(hex)

SpecContrast == InitCrop /\ [][NextContrast]_vars

\* The text without its '#' characters
WithoutHashes(s) == SelectSeq(s, LAMBDA c : c # "#")

\* A 6-hex-digit color as the page reads it: six hexadecimal digits in a row,
\* blanks around them, and at most one '#'
IsHexColor(s) ==
  LET w == WithoutHashes(s)
  IN /\ Len(s) - Len(w) <= 1
     /\ \E i \in 0..Len(w) :
          /\ i + 6 <= Len(w)
          /\ \A k \in 1..Len(w) :
               IF k \in (i + 1)..(i + 6) THEN IsHexDigit(w[k]) ELSE w[k] = " "

\* The byte spelled by the k-th pair of the color's digits
ColorByte(s, k) ==
  LET d == SelectSeq(s, IsHexDigit)
  IN 16 * HexDigitValue(d[2 * k - 1]) + HexDigitValue(d[2 * k])

\* C38: getContrastColor returns the dark neutral '#111827' exactly when the
\* input is a 6-hex-digit color with 299*R + 587*G + 114*B > 153000 or is no
\* valid 6-hex-digit color, and the light neutral '#ffffff' otherwise.
C38_ContrastRule ==
  finished.kind = "contrast" =>
    LET s == finished.input
        weighted == 299 * ColorByte(s, 1) + 587 * ColorByte(s, 2)
                    + 114 * ColorByte(s, 3)
    IN /\ finished.value \in {"#111827", "#ffffff"}
       /\ finished.value = "#111827" <=>
            (~IsHexColor(s) \/ (IsHexColor(s) /\ weighted > 153000))
       /\ finished.value = "#ffffff" <=>
            (IsHexColor(s) /\ weighted <= 153000)

\* The gray whose weighted sum is exactly 153000 got the light neutral
C38_Witness ==
  /\ finished.kind = "contrast"
  /\ finished.input = <<"#", "9", "9", "9", "9", "9", "9">>
  /\ finished.rgb = [t |-> "rgb", r |-> 153, g |-> 153, b |-> 153]
  /\ finished.value = "#ffffff"

====
